---------------------------- MODULE Spec2Model ----------------------------
(***************************************************************************)
(* Model of the FRDM-IMX93 hardware verification tool: the TestResult /    *)
(* TestReport vocabulary, the eleven PeripheralTester implementations      *)
(* (short_test and monitor_test) and the command line runner (main) that   *)
(* drives them and aggregates their reports.                               *)
(*                                                                         *)
(* Everything a tester reads from the operating system (files under /proc  *)
(* and /sys, device nodes, exit codes of shell commands, the steady clock) *)
(* is an input of the call, drawn from a small set.  Probes are total:     *)
(* kernel generated files are taken to parse.                              *)
(***************************************************************************)
EXTENDS Integers, Sequences, FiniteSets, TLC

VARIABLES
    tester,        \* the PeripheralTester object under direct test (harness)
    call,          \* the last method call made on it and what it executed
    pc,            \* main(): position of the runner
    cmd,           \* main(): the parsed command line
    reports,       \* main(): std::vector<TestReport> reports
    failed_tests,  \* main(): int failed_tests
    idx,           \* main(): position of the running for loop
    last,          \* main(): what the latest run_test invocation did
    test_calls,    \* number of short_test/monitor_test calls made by main()
    listing,       \* lines printed by list_peripherals()
    summary,       \* the JSON summary object written by main()
    exit_code,     \* value returned by main()
    json_in,       \* JsonWriter::escape_string: the argument str
    json_out,      \* JsonWriter::escape_string: the returned string
    mon,           \* a monitoring function: what it sampled and returned
    sysfs,         \* short_test of a GPIO-driving tester: the pins' state
    mc,            \* CPUTester::test_multi_core: its threads and results
    cpu,           \* CPUTester: what /proc/cpuinfo and the sensors gave it
    life,          \* GPIOTester from constructor to destructor: exported pins
    ifaces,        \* FormFactorTester: the host's interfaces and its verdict
    gpio           \* GPIOTester: the pins under /sys/class/gpio and its own

json_vars == <<json_in, json_out>>

(* What the harness of the testers and main() leave alone.                 *)
other_vars == <<json_vars, mon, gpio, sysfs, mc, cpu, life, ifaces>>

vars == <<tester, call, pc, cmd, reports, failed_tests, idx, last,
          test_calls, listing, summary, exit_code, other_vars>>

---------------------------------------------------------------------------
(* Bounds of the model *)

MaxArgs == 2          \* peripheral names given to one subcommand
MaxReports == 2       \* reports aggregated by one run of main()
MaxPolls == 2         \* iterations of a monitoring loop
MaxCores == 2         \* std::thread::hardware_concurrency()

---------------------------------------------------------------------------
(* enum class TestResult *)

SUCCESS == "SUCCESS"
FAILURE == "FAILURE"
NOT_SUPPORTED == "NOT_SUPPORTED"
TIMEOUT == "TIMEOUT"
SKIPPED == "SKIPPED"

TestResult == {SUCCESS, FAILURE, NOT_SUPPORTED, TIMEOUT, SKIPPED}

(* TestReport::TestReport(): the default constructed report.  The          *)
(* timestamp is wall clock time and is not modelled.                       *)
DefaultReport ==
    [result |-> SKIPPED, peripheral_name |-> "", duration |-> 0,
     details |-> <<>>]

(* The keys of tester_registry.  std::map iterates them in sorted order.   *)
tester_registry ==
    <<"camera", "cpu", "display", "form_factor", "gpio", "gpu", "memory",
      "networking", "power", "storage", "usb">>

Registered == {tester_registry[i] : i \in 1..Len(tester_registry)}

(* get_peripheral_name() of the tester registered under each key.          *)
get_peripheral_name(name) ==
    CASE name = "camera"      -> "Camera"
      [] name = "cpu"         -> "CPU"
      [] name = "display"     -> "Display"
      [] name = "form_factor" -> "Form Factor"
      [] name = "gpio"        -> "GPIO"
      [] name = "gpu"         -> "GPU"
      [] name = "memory"      -> "Memory"
      [] name = "networking"  -> "Networking"
      [] name = "power"       -> "Power"
      [] name = "storage"     -> "Storage"
      [] name = "usb"         -> "USB"

(* a create_report that leaves the result of the default report in place  *)
create_report_result_unset(name, result, details, test_duration) ==
    [DefaultReport EXCEPT !.peripheral_name = get_peripheral_name(name),
                          !.duration = test_duration,
                          !.details = details]

(* PeripheralTester::create_report                                         *)
create_report(name, result, details, test_duration) ==
    [DefaultReport EXCEPT !.result = result,
                          !.peripheral_name = get_peripheral_name(name),
                          !.duration = test_duration,
                          !.details = details]

(* one text for every tester                                               *)
NotAvailableText_generic(name) == "Peripheral not available"

(* The text of the report returned when the availability flag is false.    *)
NotAvailableText(name) ==
    CASE name = "camera"      -> "Camera interfaces not available"
      [] name = "cpu"         -> "CPU information not available"
      [] name = "display"     -> "Display interfaces not available"
      [] name = "form_factor" -> "Form factor testing not available"
      [] name = "gpio"        -> "GPIO sysfs interface not available"
      [] name = "gpu"         -> "GPU not available or not accessible"
      [] name = "memory"      -> "Memory information not available"
      [] name = "networking"  -> "Networking not available"
      [] name = "power"       -> "Power management not available"
      [] name = "storage"     -> "Storage devices not available"
      [] name = "usb"         -> "USB controllers not available"

(* The text a monitor_test builds: prefix, duration.count(), " seconds".   *)
MonitorText(name, d) ==
    <<CASE name = "camera"      -> "Camera monitoring completed for "
        [] name = "cpu"         -> "CPU monitoring completed for "
        [] name = "display"     -> "Display monitoring completed for "
        [] name = "form_factor" -> "Interface monitoring completed for "
        [] name = "gpio"        -> "GPIO monitoring completed for "
        [] name = "gpu"         -> "GPU monitoring completed for "
        [] name = "memory"      -> "Memory monitoring completed for "
        [] name = "networking"  -> "Network monitoring completed for "
        [] name = "power"       -> "Power monitoring completed for "
        [] name = "storage"     -> "Storage monitoring completed for "
        [] name = "usb"         -> "USB monitoring completed for ",
      ToString(d), " seconds">>

(* short_test concatenates host information and one line per sub-check    *)
(* into details; the model keeps that text as one token.                   *)
ShortText(name) == <<get_peripheral_name(name), "sub-check lines">>

(* What one call of short_test or monitor_test did: the report returned,   *)
(* the sub-checks executed with their results, and the number of           *)
(* iterations of the sampling loop.                                        *)
NoChecks == [k \in {} |-> SUCCESS]

Exec(report, checks, polls) ==
    [report |-> report, checks |-> checks, polls |-> polls]

(* The early return shared by every short_test and monitor_test.           *)
NotAvailable(name) ==
    Exec(create_report(name, NOT_SUPPORTED, <<NotAvailableText(name)>>, 0),
         NoChecks, 0)

Verdict(all_passed) == IF all_passed THEN SUCCESS ELSE FAILURE

Tolerated(r) == r = SUCCESS \/ r = NOT_SUPPORTED

(* Readings of std::chrono::steady_clock at the start and at the end of a  *)
(* call, in milliseconds.  The clock is monotonic.                         *)
Ticks == {0, 7}

Clocks ==
    {c \in [start_time : Ticks, end_time : Ticks] :
        c.start_time <= c.end_time}

(* duration_cast<milliseconds>(end_time - start_time)                      *)
(* the difference taken the wrong way round                                *)
Elapsed_reversed(clock) == clock.start_time - clock.end_time

Elapsed(clock) == clock.end_time - clock.start_time

---------------------------------------------------------------------------
(* CPUTester *)

MAX_PRIME == 10000

IsPrime(num) == \A i \in 2..num : (i * i <= num) => (num % i /= 0)

RECURSIVE LastPrimeUpTo(_)
LastPrimeUpTo(n) ==
    IF n < 2 THEN 0 ELSE IF IsPrime(n) THEN n ELSE LastPrimeUpTo(n - 1)

(* primes.back() is the largest prime <= MAX_PRIME                         *)
CPUTester_benchmark_cpu ==
    IF LastPrimeUpTo(MAX_PRIME) = 0 \/ LastPrimeUpTo(MAX_PRIME) /= 9973
    THEN FAILURE ELSE SUCCESS

(* temp is get_cpu_temperature(): a reading in degrees, or -1              *)
CPUTester_test_temperature(temp) ==
    IF temp < 0 THEN NOT_SUPPORTED
    ELSE IF temp < 0 \/ temp > 100 THEN FAILURE
    ELSE SUCCESS

(* The value worker i stores in results[i]: sum over j < 1000 of j * i     *)
WorkerSum(i) == 499500 * i

CPUTester_test_multi_core(num_threads) ==
    IF num_threads = 0 THEN NOT_SUPPORTED
    ELSE IF \E i \in 0..(num_threads - 1) : WorkerSum(i) = 0 THEN FAILURE
    ELSE SUCCESS

CPUTester_test_npu(npu_available, node_exists, pipe_opened, driver_listed) ==
    IF ~npu_available THEN NOT_SUPPORTED
    ELSE IF ~node_exists /\ ~pipe_opened THEN NOT_SUPPORTED
    ELSE IF ~node_exists /\ ~driver_listed THEN NOT_SUPPORTED
    ELSE SUCCESS

CPUTemperatures == {-1, 0, 45, 100, 101, 125}

CPUTester_Inputs ==
    [temp : CPUTemperatures, num_threads : 0..MaxCores,
     npu_available : BOOLEAN, node_exists : BOOLEAN,
     pipe_opened : BOOLEAN, driver_listed : BOOLEAN]

CPUTester_short_test(available, in, clock) ==
    IF ~available THEN NotAvailable("cpu")
    ELSE LET r == [benchmark  |-> CPUTester_benchmark_cpu,
                   temperature |-> CPUTester_test_temperature(in.temp),
                   multi_core |-> CPUTester_test_multi_core(in.num_threads),
                   npu |-> CPUTester_test_npu(in.npu_available,
                               in.node_exists, in.pipe_opened,
                               in.driver_listed)]
             all_passed == /\ r.benchmark = SUCCESS
                           /\ Tolerated(r.temperature)
                           /\ r.multi_core = SUCCESS
                           /\ Tolerated(r.npu)
         IN Exec(create_report("cpu", Verdict(all_passed), ShortText("cpu"),
                               Elapsed(clock)), r, 0)

---------------------------------------------------------------------------
(* GPIOTester *)

(* steps_ok: every export, direction, write and read on pins 0, 1, 2 works *)
GPIOTester_test_digital_io(steps_ok) ==
    IF ~steps_ok THEN FAILURE ELSE SUCCESS

GPIOTester_test_pwm(exported, pwmchip_exists) ==
    IF ~exported THEN FAILURE
    ELSE IF ~pwmchip_exists THEN NOT_SUPPORTED
    ELSE SUCCESS

GPIOTester_test_i2c(i2c_found) ==
    IF ~i2c_found THEN NOT_SUPPORTED ELSE SUCCESS

GPIOTester_test_spi(spi_found) ==
    IF ~spi_found THEN NOT_SUPPORTED ELSE SUCCESS

GPIOTester_test_uart(uart_found) ==
    IF ~uart_found THEN NOT_SUPPORTED ELSE SUCCESS

GPIOTester_Inputs ==
    [steps_ok : BOOLEAN, exported : BOOLEAN, pwmchip_exists : BOOLEAN,
     i2c_found : BOOLEAN, spi_found : BOOLEAN, uart_found : BOOLEAN]

GPIOTester_short_test(available, in, clock) ==
    IF ~available THEN NotAvailable("gpio")
    ELSE LET r == [digital_io |-> GPIOTester_test_digital_io(in.steps_ok),
                   pwm  |-> GPIOTester_test_pwm(in.exported,
                                                in.pwmchip_exists),
                   i2c  |-> GPIOTester_test_i2c(in.i2c_found),
                   spi  |-> GPIOTester_test_spi(in.spi_found),
                   uart |-> GPIOTester_test_uart(in.uart_found)]
             all_passed == /\ r.digital_io = SUCCESS
                           /\ r.pwm = SUCCESS
                           /\ r.i2c = SUCCESS
                           /\ r.spi = SUCCESS
                           /\ r.uart = SUCCESS
         IN Exec(create_report("gpio", Verdict(all_passed),
                               ShortText("gpio"), Elapsed(clock)), r, 0)

---------------------------------------------------------------------------
(* GPUTester *)

(* command_ok: system() returned 0                                         *)
GPUTester_test_opengl(supports_opengl, command_ok) ==
    IF ~supports_opengl THEN NOT_SUPPORTED
    ELSE IF command_ok THEN SUCCESS ELSE FAILURE

GPUTester_test_vulkan(supports_vulkan, command_ok) ==
    IF ~supports_vulkan THEN NOT_SUPPORTED
    ELSE IF command_ok THEN SUCCESS ELSE FAILURE

GPUTester_test_gpu_memory(memory_mb) ==
    IF memory_mb = 0 THEN NOT_SUPPORTED ELSE SUCCESS

GPUTester_Inputs ==
    [supports_opengl : BOOLEAN, glxgears_ok : BOOLEAN,
     supports_vulkan : BOOLEAN, vulkaninfo_ok : BOOLEAN,
     memory_mb : {0, 256}]

GPUTester_short_test(available, in, clock) ==
    IF ~available THEN NotAvailable("gpu")
    ELSE LET r == [opengl |-> GPUTester_test_opengl(in.supports_opengl,
                                                    in.glxgears_ok),
                   vulkan |-> GPUTester_test_vulkan(in.supports_vulkan,
                                                    in.vulkaninfo_ok),
                   gpu_memory |-> GPUTester_test_gpu_memory(in.memory_mb)]
             all_passed == /\ Tolerated(r.opengl)
                           /\ Tolerated(r.vulkan)
                           /\ r.gpu_memory = SUCCESS
         IN Exec(create_report("gpu", Verdict(all_passed), ShortText("gpu"),
                               Elapsed(clock)), r, 0)

---------------------------------------------------------------------------
(* MemoryTester *)

(* patterns_ok: every pattern read back from the buffer equals what was    *)
(* written                                                                 *)
MemoryTester_test_ram_integrity(patterns_ok) ==
    IF ~patterns_ok THEN FAILURE ELSE SUCCESS

MemoryTester_test_memory_bandwidth(duration_ms) ==
    IF duration_ms > 5000 THEN FAILURE ELSE SUCCESS

(* ce_count: -1 when the file cannot be opened, -2 when it does not parse  *)
MemoryTester_test_ecc(ecc_supported, ecc_enabled, ce_count) ==
    IF ~ecc_supported THEN NOT_SUPPORTED
    ELSE IF ~ecc_enabled THEN FAILURE
    ELSE IF ce_count = -2 THEN FAILURE
    ELSE IF ce_count > 0 THEN FAILURE
    ELSE SUCCESS

MemoryTester_Inputs ==
    [patterns_ok : BOOLEAN, duration_ms : {120, 5000, 5001},
     ecc_supported : BOOLEAN, ecc_enabled : BOOLEAN,
     ce_count : {-2, -1, 0, 1}]

MemoryTester_short_test(available, in, clock) ==
    IF ~available THEN NotAvailable("memory")
    ELSE LET r == [ram_integrity |->
                       MemoryTester_test_ram_integrity(in.patterns_ok),
                   memory_bandwidth |->
                       MemoryTester_test_memory_bandwidth(in.duration_ms),
                   ecc |-> MemoryTester_test_ecc(in.ecc_supported,
                                                 in.ecc_enabled, in.ce_count)]
             all_passed == /\ r.ram_integrity = SUCCESS
                           /\ r.memory_bandwidth = SUCCESS
                           /\ Tolerated(r.ecc)
         IN Exec(create_report("memory", Verdict(all_passed),
                               ShortText("memory"), Elapsed(clock)), r, 0)

---------------------------------------------------------------------------
(* StorageTester *)

(* found: storage_devices_ holds a device of the type; perf_ok: every      *)
(* test_storage_performance on such a device returned SUCCESS              *)
StorageTester_test_emmc(found, perf_ok) ==
    IF found /\ ~perf_ok THEN FAILURE
    ELSE IF found THEN SUCCESS ELSE NOT_SUPPORTED

StorageTester_test_sdcard(found, perf_ok) ==
    IF found /\ ~perf_ok THEN FAILURE
    ELSE IF found THEN SUCCESS ELSE NOT_SUPPORTED

StorageTester_test_nvme(found, perf_ok) ==
    IF found /\ ~perf_ok THEN FAILURE
    ELSE IF found THEN SUCCESS ELSE NOT_SUPPORTED

StorageTester_test_pcie(nvme_found, lspci_lists) ==
    IF nvme_found \/ lspci_lists THEN SUCCESS ELSE NOT_SUPPORTED

StorageTester_test_m2(nvme_found, lspci_lists) ==
    StorageTester_test_pcie(nvme_found, lspci_lists)

StorageTester_Inputs ==
    [emmc_found : BOOLEAN, emmc_ok : BOOLEAN, sd_found : BOOLEAN,
     sd_ok : BOOLEAN, nvme_found : BOOLEAN, nvme_ok : BOOLEAN,
     lspci_lists : BOOLEAN]

StorageTester_short_test(available, in, clock) ==
    IF ~available THEN NotAvailable("storage")
    ELSE LET r == [emmc   |-> StorageTester_test_emmc(in.emmc_found,
                                                      in.emmc_ok),
                   sdcard |-> StorageTester_test_sdcard(in.sd_found,
                                                        in.sd_ok),
                   nvme   |-> StorageTester_test_nvme(in.nvme_found,
                                                      in.nvme_ok),
                   pcie   |-> StorageTester_test_pcie(in.nvme_found,
                                                      in.lspci_lists),
                   m2     |-> StorageTester_test_m2(in.nvme_found,
                                                    in.lspci_lists)]
             all_passed == /\ Tolerated(r.emmc)
                           /\ Tolerated(r.sdcard)
                           /\ Tolerated(r.nvme)
                           /\ Tolerated(r.pcie)
                           /\ Tolerated(r.m2)
         IN Exec(create_report("storage", Verdict(all_passed),
                               ShortText("storage"), Elapsed(clock)), r, 0)

---------------------------------------------------------------------------
(* DisplayTester *)

(* found: displays_ holds a display of the type; resolution_ok: every      *)
(* connected one passes test_display_resolution                            *)
DisplayTester_test_hdmi(found, resolution_ok) ==
    IF found /\ ~resolution_ok THEN FAILURE
    ELSE IF found THEN SUCCESS ELSE NOT_SUPPORTED

DisplayTester_test_mipi_dsi(found, resolution_ok) ==
    IF found /\ ~resolution_ok THEN FAILURE
    ELSE IF found THEN SUCCESS ELSE NOT_SUPPORTED

(* active_4k60: a connected HDMI display runs a 4K mode at >= 60 Hz;       *)
(* xrandr_lists: xrandr prints a 4K mode                                   *)
DisplayTester_test_4k_hdmi(active_4k60, xrandr_lists) ==
    IF active_4k60 THEN SUCCESS
    ELSE IF xrandr_lists THEN SUCCESS
    ELSE NOT_SUPPORTED

DisplayTester_Inputs ==
    [hdmi_found : BOOLEAN, hdmi_ok : BOOLEAN, dsi_found : BOOLEAN,
     dsi_ok : BOOLEAN, active_4k60 : BOOLEAN, xrandr_lists : BOOLEAN]

DisplayTester_short_test(available, in, clock) ==
    IF ~available THEN NotAvailable("display")
    ELSE LET r == [hdmi |-> DisplayTester_test_hdmi(in.hdmi_found,
                                                    in.hdmi_ok),
                   mipi_dsi |-> DisplayTester_test_mipi_dsi(in.dsi_found,
                                                            in.dsi_ok),
                   hdmi_4k |-> DisplayTester_test_4k_hdmi(in.active_4k60,
                                                          in.xrandr_lists)]
             all_passed == /\ Tolerated(r.hdmi)
                           /\ Tolerated(r.mipi_dsi)
                           /\ Tolerated(r.hdmi_4k)
         IN Exec(create_report("display", Verdict(all_passed),
                               ShortText("display"), Elapsed(clock)), r, 0)

---------------------------------------------------------------------------
(* CameraTester *)

(* connected: number of cameras_ entries with connected set; probes_ok:    *)
(* test_camera_sensor and test_camera_capture succeed on each of them      *)
CameraTester_test_mipi_csi2(connected, probes_ok) ==
    IF connected > 0 /\ ~probes_ok THEN FAILURE
    ELSE IF connected > 0 THEN SUCCESS ELSE NOT_SUPPORTED

CameraTester_test_multi_camera(camera_count) ==
    IF camera_count > 2 THEN FAILURE
    ELSE IF camera_count > 0 THEN SUCCESS ELSE NOT_SUPPORTED

CameraTester_Inputs == [connected : 0..3, probes_ok : BOOLEAN]

CameraTester_short_test(available, in, clock) ==
    IF ~available THEN NotAvailable("camera")
    ELSE LET r == [mipi_csi2 |->
                       CameraTester_test_mipi_csi2(in.connected,
                                                   in.probes_ok),
                   multi_camera |->
                       CameraTester_test_multi_camera(in.connected)]
             all_passed == /\ Tolerated(r.mipi_csi2)
                           /\ Tolerated(r.multi_camera)
         IN Exec(create_report("camera", Verdict(all_passed),
                               ShortText("camera"), Elapsed(clock)), r, 0)

---------------------------------------------------------------------------
(* USBTester *)

(* controllers: size of controllers_; host_if: some controller has an      *)
(* ehci/ohci/xhci interface                                                *)
USBTester_test_usb_controllers(controllers, host_if) ==
    IF controllers = 0 THEN FAILURE
    ELSE IF host_if THEN SUCCESS ELSE FAILURE

(* the loop of short_test over the connected devices: paths_exist is       *)
(* fs::exists(device_path) for each of them                                *)
USBTester_test_usb_device(paths_exist) ==
    IF ~paths_exist THEN FAILURE ELSE SUCCESS

USBTester_test_usb_transfer(fast_device) ==
    IF fast_device THEN SUCCESS ELSE NOT_SUPPORTED

USBTester_test_usb_power(power_path, device_power) ==
    IF power_path \/ device_power THEN SUCCESS ELSE FAILURE

USBTester_Inputs ==
    [controllers : {0, 1}, host_if : BOOLEAN, paths_exist : BOOLEAN,
     fast_device : BOOLEAN, power_path : BOOLEAN, device_power : BOOLEAN]

USBTester_short_test(available, in, clock) ==
    IF ~available THEN NotAvailable("usb")
    ELSE LET r == [controllers |->
                       USBTester_test_usb_controllers(in.controllers,
                                                      in.host_if),
                   devices |-> USBTester_test_usb_device(in.paths_exist),
                   transfer |-> USBTester_test_usb_transfer(in.fast_device),
                   power |-> USBTester_test_usb_power(in.power_path,
                                                      in.device_power)]
             all_passed == /\ r.controllers = SUCCESS
                           /\ r.devices = SUCCESS
                           /\ Tolerated(r.transfer)
                           /\ r.power = SUCCESS
         IN Exec(create_report("usb", Verdict(all_passed),
                               ShortText("usb"), Elapsed(clock)), r, 0)

---------------------------------------------------------------------------
(* NetworkingTester *)

NetworkingTester_ping_host(exit_status) ==
    IF exit_status = 0 THEN SUCCESS ELSE FAILURE

(* successful_tests: how many of the three hosts answered the ping         *)
NetworkingTester_test_connectivity(successful_tests) ==
    IF successful_tests >= 2 THEN SUCCESS ELSE FAILURE

NetworkingTester_test_dns_resolution(successful_resolutions) ==
    IF successful_resolutions >= 2 THEN SUCCESS ELSE FAILURE

NetworkingTester_test_latency(exit_status) ==
    NetworkingTester_ping_host(exit_status)

NetworkingTester_Inputs ==
    [has_active_interface : BOOLEAN, successful_tests : 0..3,
     successful_resolutions : 0..3, exit_status : {0, 1}]

NetworkingTester_short_test(available, in, clock) ==
    IF ~available THEN NotAvailable("networking")
    ELSE LET r == [interfaces |->
                       IF in.has_active_interface THEN SUCCESS ELSE FAILURE,
                   connectivity |->
                       NetworkingTester_test_connectivity(in.successful_tests),
                   dns |-> NetworkingTester_test_dns_resolution(
                               in.successful_resolutions),
                   latency |-> NetworkingTester_test_latency(in.exit_status)]
             all_passed == /\ r.interfaces = SUCCESS
                           /\ Tolerated(r.connectivity)
                           /\ r.dns = SUCCESS
                           /\ Tolerated(r.latency)
         IN Exec(create_report("networking", Verdict(all_passed),
                               ShortText("networking"), Elapsed(clock)), r, 0)

---------------------------------------------------------------------------
(* PowerTester *)

PowerTester_test_power_source(source_known, upower_lists) ==
    IF source_known THEN SUCCESS
    ELSE IF upower_lists THEN SUCCESS
    ELSE FAILURE

(* readings: voltage_v, current_ma or power_w is positive                  *)
PowerTester_test_power_monitoring(readings, power_supply_dir) ==
    IF readings THEN SUCCESS
    ELSE IF power_supply_dir THEN NOT_SUPPORTED
    ELSE FAILURE

PowerTester_test_battery(battery_present, battery_percentage) ==
    IF ~battery_present THEN NOT_SUPPORTED
    ELSE IF battery_percentage >= 0 /\ battery_percentage <= 100 THEN SUCCESS
    ELSE FAILURE

PowerTester_test_power_management(power_state, cpufreq) ==
    IF power_state \/ cpufreq THEN SUCCESS ELSE FAILURE

PowerTester_Inputs ==
    [source_known : BOOLEAN, upower_lists : BOOLEAN, readings : BOOLEAN,
     power_supply_dir : BOOLEAN, battery_present : BOOLEAN,
     battery_percentage : {-1, 50, 101}, power_state : BOOLEAN,
     cpufreq : BOOLEAN]

PowerTester_short_test(available, in, clock) ==
    IF ~available THEN NotAvailable("power")
    ELSE LET r == [source |->
                       PowerTester_test_power_source(in.source_known,
                                                     in.upower_lists),
                   monitoring |->
                       PowerTester_test_power_monitoring(
                           in.readings, in.power_supply_dir),
                   battery |->
                       PowerTester_test_battery(in.battery_present,
                                                in.battery_percentage),
                   pm |-> PowerTester_test_power_management(in.power_state,
                                                            in.cpufreq)]
             all_passed == /\ r.source = SUCCESS
                           /\ Tolerated(r.monitoring)
                           /\ Tolerated(r.battery)
                           /\ r.pm = SUCCESS
         IN Exec(create_report("power", Verdict(all_passed),
                               ShortText("power"), Elapsed(clock)), r, 0)

---------------------------------------------------------------------------
(* FormFactorTester *)

FormFactorTester_test_board_info(info_read, vcgencmd_prints) ==
    IF info_read THEN SUCCESS
    ELSE IF vcgencmd_prints THEN SUCCESS
    ELSE FAILURE

(* pins_tested: test_gpio_pin answered for some pin 0..9; pins_ok: none of *)
(* the answers was a failure                                               *)
FormFactorTester_test_gpio_pins(gpio_dir, pins_tested, pins_ok) ==
    IF ~gpio_dir THEN NOT_SUPPORTED
    ELSE IF pins_tested /\ ~pins_ok THEN FAILURE
    ELSE IF pins_tested THEN SUCCESS ELSE NOT_SUPPORTED

(* enumerate_interfaces always returns the same seven entries              *)
FormFactorTester_enumerate_interfaces == 7

FormFactorTester_test_interfaces(any_available) ==
    IF FormFactorTester_enumerate_interfaces = 0 THEN FAILURE
    ELSE IF any_available THEN SUCCESS ELSE FAILURE

FormFactorTester_test_temperature(temp) ==
    IF temp > 0 /\ temp < 100 THEN SUCCESS ELSE NOT_SUPPORTED

FormFactorTester_Inputs ==
    [info_read : BOOLEAN, vcgencmd_prints : BOOLEAN, gpio_dir : BOOLEAN,
     pins_tested : BOOLEAN, pins_ok : BOOLEAN, any_available : BOOLEAN,
     temp : {-1, 0, 45, 100}]

FormFactorTester_short_test(available, in, clock) ==
    IF ~available THEN NotAvailable("form_factor")
    ELSE LET r == [board_info |->
                       FormFactorTester_test_board_info(in.info_read,
                                                        in.vcgencmd_prints),
                   gpio_pins |->
                       FormFactorTester_test_gpio_pins(
                           in.gpio_dir, in.pins_tested, in.pins_ok),
                   interfaces |->
                       FormFactorTester_test_interfaces(in.any_available),
                   temperature |->
                       FormFactorTester_test_temperature(in.temp)]
             all_passed == /\ r.board_info = SUCCESS
                           /\ Tolerated(r.gpio_pins)
                           /\ r.interfaces = SUCCESS
                           /\ Tolerated(r.temperature)
         IN Exec(create_report("form_factor", Verdict(all_passed),
                               ShortText("form_factor"), Elapsed(clock)), r, 0)

---------------------------------------------------------------------------
(* The monitoring loops.  A window is the sequence of values the loop      *)
(* sampled, one per iteration: the loop body does not run when the         *)
(* duration is zero or negative (end_time is not after start_time) and     *)
(* runs at least once otherwise.                                           *)

MaxChecks == 4        \* iterations of the networking monitoring loop

(* uint64_t arithmetic is modelled on a narrower unsigned word, wider than  *)
(* every counter value and threshold the model uses.                       *)
Uint64Modulus == 2^20

Max(S) == CHOOSE x \in S : \A y \in S : y <= x
Min(S) == CHOOSE x \in S : \A y \in S : x <= y

WindowsUpTo(S, d, n) ==
    IF d <= 0 THEN {<<>>} ELSE UNION {[1..k -> S] : k \in 1..n}

Windows(S, d) == WindowsUpTo(S, d, MaxPolls)

(* What a monitoring function did: its verdict and its loop iterations.    *)
Reduction(result, polls) == [result |-> result, polls |-> polls]

(* Index of the first sample of w that satisfies Bad, Len(w) + 1 if none.  *)
FirstBad(w, Bad(_)) ==
    IF \E i \in 1..Len(w) : Bad(w[i])
    THEN Min({i \in 1..Len(w) : Bad(w[i])})
    ELSE Len(w) + 1

(* CPUTester::monitor_temperature; w[i] is get_cpu_temperature(), in whole *)
(* degrees; min_temp and max_temp start at 999.0 and -999.0.               *)
CPUTester_monitor_temperature(w) ==
    LET temperatures == {w[i] : i \in {j \in 1..Len(w) : w[j] >= 0}}
        min_temp == Min(temperatures \cup {999})
        max_temp == Max(temperatures \cup {-999})
        temp_variation == max_temp - min_temp
    IN Reduction(IF temperatures = {} THEN NOT_SUPPORTED
                 ELSE IF temp_variation <= 20 THEN SUCCESS ELSE FAILURE,
                 Len(w))

(* GPUTester::monitor_gpu_temperature; w[i] is get_gpu_temperature()       *)
(* GPUTester::monitor_gpu_temperature with the limit of the CPU monitor    *)
GPUTester_monitor_gpu_temperature_limit_20(w) ==
    LET temperatures == {w[i] : i \in {j \in 1..Len(w) : w[j] >= 0}}
        min_temp == Min(temperatures \cup {999})
        max_temp == Max(temperatures \cup {-999})
        temp_variation == max_temp - min_temp
    IN Reduction(IF temperatures = {} THEN NOT_SUPPORTED
                 ELSE IF temp_variation <= 20 THEN SUCCESS ELSE FAILURE,
                 Len(w))

GPUTester_monitor_gpu_temperature(w) ==
    LET temperatures == {w[i] : i \in {j \in 1..Len(w) : w[j] >= 0}}
        min_temp == Min(temperatures \cup {999})
        max_temp == Max(temperatures \cup {-999})
        temp_variation == max_temp - min_temp
    IN Reduction(IF temperatures = {} THEN NOT_SUPPORTED
                 ELSE IF temp_variation <= 15 THEN SUCCESS ELSE FAILURE,
                 Len(w))

(* GPIOTester::monitor_gpio_stability asking for more than 95% of the      *)
(* reads                                                                   *)
GPIOTester_monitor_gpio_stability_above_95(setup_ok, w) ==
    IF ~setup_ok THEN Reduction(FAILURE, 0)
    ELSE LET total_reads == Len(w)
             stable_count == Cardinality({i \in 1..Len(w) : w[i] # -1})
         IN Reduction(IF total_reads = 0 THEN FAILURE
                      ELSE IF 100 * stable_count > 95 * total_reads
                           THEN SUCCESS ELSE FAILURE,
                      total_reads)

(* GPIOTester::monitor_gpio_stability; w[i] is read_gpio(2).  With no read *)
(* the ratio is 0.0 / 0, a NaN, and NaN >= 0.95 is false.                  *)
GPIOTester_monitor_gpio_stability(setup_ok, w) ==
    IF ~setup_ok THEN Reduction(FAILURE, 0)
    ELSE LET total_reads == Len(w)
             stable_count == Cardinality({i \in 1..Len(w) : w[i] # -1})
         IN Reduction(IF total_reads = 0 THEN FAILURE
                      ELSE IF 100 * stable_count >= 95 * total_reads
                           THEN SUCCESS ELSE FAILURE,
                      total_reads)

(* MemoryTester::monitor_memory_usage; w[i] is the MemAvailable value in   *)
(* MB, -1 when /proc/meminfo gave none.  used_mb is an uint64_t.           *)
MemoryTester_monitor_memory_usage(total_ram_mb, w) ==
    LET memory_usage ==
            {(total_ram_mb - w[i]) % Uint64Modulus : i \in {j \in 1..Len(w) : w[j] >= 0}}
    IN Reduction(IF memory_usage = {} THEN FAILURE
                 ELSE IF total_ram_mb = 0 THEN FAILURE
                 ELSE IF 10 * (Max(memory_usage) - Min(memory_usage))
                             <= total_ram_mb
                      THEN SUCCESS ELSE FAILURE,
                 Len(w))

(* StorageTester::monitor_storage_io; w[i] is the pair of summed counters  *)
(* read from /proc/diskstats, <<>> when the file did not open.             *)
StorageTester_monitor_storage_io(w) ==
    LET counts == SelectSeq(w, LAMBDA c : c # <<>>)
        read_variation ==
            (counts[Len(counts)][1] - counts[1][1]) % Uint64Modulus
        write_variation ==
            (counts[Len(counts)][2] - counts[1][2]) % Uint64Modulus
    IN Reduction(IF Len(counts) < 2 THEN FAILURE
                 ELSE IF read_variation < 10000 /\ write_variation < 10000
                      THEN SUCCESS ELSE FAILURE,
                 Len(w))

(* DisplayTester::monitor_display_connection leaving its loop at the first *)
(* count that differs from the first one                                   *)
DisplayTester_monitor_display_connection_stops_early(w) ==
    Reduction(IF w = <<>> THEN FAILURE
              ELSE IF \A i \in 1..Len(w) : w[i] = w[1]
                   THEN SUCCESS ELSE FAILURE,
              IF \E i \in 1..Len(w) : w[i] # w[1]
              THEN CHOOSE i \in 1..Len(w) :
                       /\ w[i] # w[1]
                       /\ \A j \in 1..(i - 1) : w[j] = w[1]
              ELSE Len(w))

(* DisplayTester::monitor_display_connection; w[i] is the number of        *)
(* connected displays enumerate_displays() found.                          *)
DisplayTester_monitor_display_connection(w) ==
    Reduction(IF w = <<>> THEN FAILURE
              ELSE IF \A i \in 1..Len(w) : w[i] = w[1]
                   THEN SUCCESS ELSE FAILURE,
              Len(w))

(* CameraTester::monitor_camera_streaming; cameras is the set of device    *)
(* paths cached by the constructor, w[i] the set enumerate_cameras()       *)
(* found.  The loop stops at the first poll that differs.                  *)
CameraTester_monitor_camera_streaming(cameras, w) ==
    IF cameras = {} THEN Reduction(NOT_SUPPORTED, 0)
    ELSE LET Changed(current) ==
                 \/ Cardinality(current) # Cardinality(cameras)
                 \/ ~(cameras \subseteq current)
             first == FirstBad(w, Changed)
         IN IF first <= Len(w) THEN Reduction(FAILURE, first)
            ELSE Reduction(SUCCESS, Len(w))

(* USBTester::monitor_usb_devices comparing the number of devices only     *)
USBTester_monitor_usb_devices_count_only(initial_devices, w) ==
    LET Changed(current) ==
            Cardinality(current) # Cardinality(initial_devices)
        first == FirstBad(w, Changed)
    IN IF first <= Len(w) THEN Reduction(FAILURE, first)
       ELSE Reduction(SUCCESS, Len(w))

(* USBTester::monitor_usb_devices; initial_devices is enumerated once      *)
(* before the loop, w[i] at each poll.                                     *)
USBTester_monitor_usb_devices(initial_devices, w) ==
    LET Changed(current) ==
            \/ Cardinality(current) # Cardinality(initial_devices)
            \/ ~(initial_devices \subseteq current)
        first == FirstBad(w, Changed)
    IN IF first <= Len(w) THEN Reduction(FAILURE, first)
       ELSE Reduction(SUCCESS, Len(w))

(* The loop of monitor_connectivity with failure_count set back to zero by *)
(* a successful check                                                      *)
RECURSIVE NetworkingTester_monitor_loop_resetting(_, _, _)
NetworkingTester_monitor_loop_resetting(w, i, failure_count) ==
    IF i > Len(w) THEN Reduction(SUCCESS, Len(w))
    ELSE IF w[i] # SUCCESS
         THEN IF failure_count + 1 > 3 THEN Reduction(FAILURE, i)
              ELSE NetworkingTester_monitor_loop_resetting(
                       w, i + 1, failure_count + 1)
         ELSE NetworkingTester_monitor_loop_resetting(w, i + 1, 0)

(* NetworkingTester::monitor_connectivity; w[i] is the result of the i-th  *)
(* test_connectivity().  failure_count is never reset.                     *)
RECURSIVE NetworkingTester_monitor_loop(_, _, _)
NetworkingTester_monitor_loop(w, i, failure_count) ==
    IF i > Len(w) THEN Reduction(SUCCESS, Len(w))
    ELSE IF w[i] # SUCCESS
         THEN IF failure_count + 1 > 3 THEN Reduction(FAILURE, i)
              ELSE NetworkingTester_monitor_loop(w, i + 1, failure_count + 1)
         ELSE NetworkingTester_monitor_loop(w, i + 1, failure_count)

NetworkingTester_monitor_connectivity(w) ==
    NetworkingTester_monitor_loop(w, 1, 0)

(* PowerTester::monitor_power_consumption; initial_info and w[i] are what  *)
(* get_power_info() returned before the loop and at each poll.             *)
RECURSIVE PowerTester_monitor_loop(_, _, _)
PowerTester_monitor_loop(w, i, initial_info) ==
    IF i > Len(w) THEN Reduction(SUCCESS, Len(w))
    ELSE LET current_info == w[i]
             baseline == IF current_info.source # initial_info.source
                         THEN current_info ELSE initial_info
             drain_rate == baseline.battery_percentage
                               - current_info.battery_percentage
         IN IF /\ current_info.battery_present
               /\ baseline.battery_present
               /\ drain_rate > 50
            THEN Reduction(FAILURE, i)
            ELSE PowerTester_monitor_loop(w, i + 1, baseline)

(* The same loop measuring the drain from the PowerInfo read before the    *)
(* loop at every poll.                                                     *)
PowerTester_monitor_power_consumption_from_start(initial_info, w) ==
    LET Unstable(current_info) ==
            /\ current_info.battery_present
            /\ initial_info.battery_present
            /\ initial_info.battery_percentage
                   - current_info.battery_percentage > 50
        first == FirstBad(w, Unstable)
    IN IF first <= Len(w) THEN Reduction(FAILURE, first)
       ELSE Reduction(SUCCESS, Len(w))

PowerTester_monitor_power_consumption(initial_info, w) ==
    PowerTester_monitor_loop(w, 1, initial_info)

(* FormFactorTester::monitor_interfaces; w[i] is get_board_temperature()   *)
(* at poll i; cached_interfaces is form_factor_info_.interfaces.size().    *)
FormFactorTester_monitor_interfaces(cached_interfaces, initial_temp, w) ==
    LET Unstable(current_temp) ==
            \/ current_temp - initial_temp > 20
            \/ initial_temp - current_temp > 20
            \/ FormFactorTester_enumerate_interfaces # cached_interfaces
        first == FirstBad(w, Unstable)
    IN IF first <= Len(w) THEN Reduction(FAILURE, first)
       ELSE Reduction(SUCCESS, Len(w))

---------------------------------------------------------------------------
(* monitor_test(duration) of the eleven testers.  d is duration.count(),   *)
(* in seconds; in holds what the monitoring function samples.              *)

(* The report a monitor_test builds from the verdict of its monitoring     *)
(* function.                                                               *)
Monitored(name, d, reduction, clock) ==
    Exec(create_report(name, reduction.result, MonitorText(name, d),
                       Elapsed(clock)),
         [monitor |-> reduction.result], reduction.polls)

(* What get_power_info() returns: a supply of type Battery has             *)
(* battery_present and the capacity read; any other source leaves          *)
(* battery_present false and battery_percentage 0.                         *)
PowerInfos ==
    [source : {"AC_ADAPTER"}, battery_present : {FALSE},
     battery_percentage : {0}]
        \cup [source : {"BATTERY"}, battery_present : {TRUE},
              battery_percentage : {0, 10, 60, 61}]

CPUTester_MonitorInputs(d) ==
    [w : Windows({-1, 40, 60, 61}, d)]

CPUTester_monitor_test(available, d, in, clock) ==
    IF ~available THEN NotAvailable("cpu")
    ELSE Monitored("cpu", d, CPUTester_monitor_temperature(in.w), clock)

GPIOTester_MonitorInputs(d) ==
    [setup_ok : BOOLEAN, w : Windows({-1, 0, 1}, d)]

(* GPIOTester::monitor_test with the gpio_available_ test left out         *)
GPIOTester_monitor_test_unguarded(available, d, in, clock) ==
    Monitored("gpio", d,
              GPIOTester_monitor_gpio_stability(in.setup_ok, in.w), clock)

GPIOTester_monitor_test(available, d, in, clock) ==
    IF ~available THEN NotAvailable("gpio")
    ELSE Monitored("gpio", d, GPIOTester_monitor_gpio_stability(in.setup_ok, in.w), clock)

GPUTester_MonitorInputs(d) ==
    [w : Windows({-1, 40, 55, 56}, d)]

GPUTester_monitor_test(available, d, in, clock) ==
    IF ~available THEN NotAvailable("gpu")
    ELSE Monitored("gpu", d, GPUTester_monitor_gpu_temperature(in.w), clock)

MemoryTester_MonitorInputs(d) ==
    [total_ram_mb : {0, 1000}, w : Windows({-1, 400, 500, 501, 1001}, d)]

MemoryTester_monitor_test(available, d, in, clock) ==
    IF ~available THEN NotAvailable("memory")
    ELSE Monitored("memory", d, MemoryTester_monitor_memory_usage(in.total_ram_mb, in.w), clock)

StorageTester_MonitorInputs(d) ==
    [w : Windows({<<>>, <<0, 0>>, <<9999, 0>>, <<10000, 0>>,
                  <<0, 9999>>, <<0, 10000>>}, d)]

StorageTester_monitor_test(available, d, in, clock) ==
    IF ~available THEN NotAvailable("storage")
    ELSE Monitored("storage", d, StorageTester_monitor_storage_io(in.w), clock)

DisplayTester_MonitorInputs(d) ==
    [w : Windows({0, 1, 2}, d)]

DisplayTester_monitor_test(available, d, in, clock) ==
    IF ~available THEN NotAvailable("display")
    ELSE Monitored("display", d, DisplayTester_monitor_display_connection(in.w), clock)

CameraTester_MonitorInputs(d) ==
    [cameras : SUBSET {"/dev/video0", "/dev/video1"},
     w : Windows(SUBSET {"/dev/video0", "/dev/video1"}, d)]

CameraTester_monitor_test(available, d, in, clock) ==
    IF ~available THEN NotAvailable("camera")
    ELSE Monitored("camera", d, CameraTester_monitor_camera_streaming(in.cameras, in.w), clock)

USBTester_MonitorInputs(d) ==
    [initial_devices : SUBSET {"1-1", "1-2"},
     w : Windows(SUBSET {"1-1", "1-2"}, d)]

USBTester_monitor_test(available, d, in, clock) ==
    IF ~available THEN NotAvailable("usb")
    ELSE Monitored("usb", d, USBTester_monitor_usb_devices(in.initial_devices, in.w), clock)

NetworkingTester_MonitorInputs(d) ==
    [w : WindowsUpTo({SUCCESS, FAILURE}, d, MaxChecks)]

NetworkingTester_monitor_test(available, d, in, clock) ==
    IF ~available THEN NotAvailable("networking")
    ELSE Monitored("networking", d, NetworkingTester_monitor_connectivity(in.w), clock)

PowerTester_MonitorInputs(d) ==
    [initial_info : PowerInfos, w : Windows(PowerInfos, d)]

PowerTester_monitor_test(available, d, in, clock) ==
    IF ~available THEN NotAvailable("power")
    ELSE Monitored("power", d, PowerTester_monitor_power_consumption(in.initial_info, in.w), clock)

FormFactorTester_MonitorInputs(d) ==
    [initial_temp : {-1, 30, 50}, w : Windows({-1, 30, 50, 51}, d)]

FormFactorTester_monitor_test(available, d, in, clock) ==
    IF ~available THEN NotAvailable("form_factor")
    ELSE Monitored("form_factor", d, FormFactorTester_monitor_interfaces(
                           FormFactorTester_enumerate_interfaces,
                           in.initial_temp, in.w), clock)

---------------------------------------------------------------------------
(* The virtual calls through std::unique_ptr<PeripheralTester>: the tester *)
(* registered under name answers.                                          *)

ShortInputs(name) ==
    CASE name = "camera"         -> CameraTester_Inputs
      [] name = "cpu"            -> CPUTester_Inputs
      [] name = "display"        -> DisplayTester_Inputs
      [] name = "form_factor"    -> FormFactorTester_Inputs
      [] name = "gpio"           -> GPIOTester_Inputs
      [] name = "gpu"            -> GPUTester_Inputs
      [] name = "memory"         -> MemoryTester_Inputs
      [] name = "networking"     -> NetworkingTester_Inputs
      [] name = "power"          -> PowerTester_Inputs
      [] name = "storage"        -> StorageTester_Inputs
      [] name = "usb"            -> USBTester_Inputs

short_test(name, available, in, clock) ==
    CASE name = "camera"         -> CameraTester_short_test(available, in, clock)
      [] name = "cpu"            -> CPUTester_short_test(available, in, clock)
      [] name = "display"        -> DisplayTester_short_test(available, in, clock)
      [] name = "form_factor"    -> FormFactorTester_short_test(available, in, clock)
      [] name = "gpio"           -> GPIOTester_short_test(available, in, clock)
      [] name = "gpu"            -> GPUTester_short_test(available, in, clock)
      [] name = "memory"         -> MemoryTester_short_test(available, in, clock)
      [] name = "networking"     -> NetworkingTester_short_test(available, in, clock)
      [] name = "power"          -> PowerTester_short_test(available, in, clock)
      [] name = "storage"        -> StorageTester_short_test(available, in, clock)
      [] name = "usb"            -> USBTester_short_test(available, in, clock)

MonitorInputs(name, d) ==
    CASE name = "camera"         -> CameraTester_MonitorInputs(d)
      [] name = "cpu"            -> CPUTester_MonitorInputs(d)
      [] name = "display"        -> DisplayTester_MonitorInputs(d)
      [] name = "form_factor"    -> FormFactorTester_MonitorInputs(d)
      [] name = "gpio"           -> GPIOTester_MonitorInputs(d)
      [] name = "gpu"            -> GPUTester_MonitorInputs(d)
      [] name = "memory"         -> MemoryTester_MonitorInputs(d)
      [] name = "networking"     -> NetworkingTester_MonitorInputs(d)
      [] name = "power"          -> PowerTester_MonitorInputs(d)
      [] name = "storage"        -> StorageTester_MonitorInputs(d)
      [] name = "usb"            -> USBTester_MonitorInputs(d)

monitor_test(name, available, d, in, clock) ==
    CASE name = "camera"         -> CameraTester_monitor_test(available, d,
                                        in, clock)
      [] name = "cpu"            -> CPUTester_monitor_test(available, d,
                                        in, clock)
      [] name = "display"        -> DisplayTester_monitor_test(available, d,
                                        in, clock)
      [] name = "form_factor"    -> FormFactorTester_monitor_test(available, d,
                                        in, clock)
      [] name = "gpio"           -> GPIOTester_monitor_test(available, d,
                                        in, clock)
      [] name = "gpu"            -> GPUTester_monitor_test(available, d,
                                        in, clock)
      [] name = "memory"         -> MemoryTester_monitor_test(available, d,
                                        in, clock)
      [] name = "networking"     -> NetworkingTester_monitor_test(available, d,
                                        in, clock)
      [] name = "power"          -> PowerTester_monitor_test(available, d,
                                        in, clock)
      [] name = "storage"        -> StorageTester_monitor_test(available, d,
                                        in, clock)
      [] name = "usb"            -> USBTester_monitor_test(available, d,
                                        in, clock)

(* duration.count() of the monitoring calls the model makes                *)
Durations == {-1, 0, 1, 10}

(* Every execution short_test can make, per tester and availability flag,  *)
(* over all inputs and clock readings.                                     *)
ShortExecs ==
    [name \in Registered |-> [available \in BOOLEAN |->
        {short_test(name, available, in, clock) :
            in \in ShortInputs(name), clock \in Clocks}]]

(* Every execution monitor_test(d) can make.                               *)
MonitorExecs ==
    [name \in Registered |-> [available \in BOOLEAN |-> [d \in Durations |->
        {monitor_test(name, available, d, in, clock) :
            in \in MonitorInputs(name, d), clock \in Clocks}]]]

---------------------------------------------------------------------------
(* A tester object driven directly, as the unit tests do: constructed,     *)
(* called any number of times, destroyed.  This happens outside a run of   *)
(* main().                                                                 *)

NoTester == [name |-> "", available |-> FALSE, alive |-> FALSE]

NoCall ==
    [method |-> "none", duration |-> 0, report |-> DefaultReport,
     checks |-> NoChecks, polls |-> 0, thrown |-> "none"]

(* A call that returned its report.  thrown is the exception that left the *)
(* call: no short_test or monitor_test has a throw statement, and none     *)
(* inspects the sign of duration.                                          *)
Called(method, d, exec) ==
    [method |-> method, duration |-> d, report |-> exec.report,
     checks |-> exec.checks, polls |-> exec.polls, thrown |-> "none"]

(* main() has not been entered.                                            *)
NoCommand ==
    [list |-> FALSE, test |-> FALSE, test_all |-> FALSE, test_count |-> 0,
     monitor |-> FALSE, monitor_all |-> FALSE, monitor_count |-> 0,
     monitor_duration |-> 10, json_output |-> FALSE]

NoRun ==
    [name |-> "", is_monitor |-> FALSE, known |-> FALSE,
     available |-> FALSE, called |-> FALSE]

NoSummary == [written |-> FALSE, total |-> 0, failed |-> 0, passed |-> 0]

RunnerIdle ==
    /\ pc = "idle"
    /\ cmd = NoCommand
    /\ reports = <<>>
    /\ failed_tests = 0
    /\ idx = 0
    /\ last = NoRun
    /\ test_calls = 0
    /\ listing = <<>>
    /\ summary = NoSummary
    /\ exit_code = -1

runner_vars ==
    <<pc, cmd, reports, failed_tests, idx, last, test_calls, listing,
      summary, exit_code>>

(* No string has been handed to JsonWriter.                                *)
JsonIdle ==
    /\ json_in = <<>>
    /\ json_out = <<>>

(* No monitoring function has been called.                                 *)
NoMonitoring ==
    [name |-> "", initial |-> 0, w |-> <<>>, result |-> SKIPPED, polls |-> 0]

(* No GPIOTester operation has run: nothing is exported.                   *)
NoPins ==
    [alive |-> FALSE, op |-> "none", input |-> <<>>, exported |-> {},
     by_op |-> {}, result |-> SKIPPED]

(* No short_test has driven a pin.                                         *)
NoSysfs ==
    [name |-> "", host |-> <<>>, config |-> <<>>, before |-> <<>>,
     results |-> <<>>]

(* test_multi_core has not been entered.                                   *)
NoThreads ==
    [main |-> "idle", num_threads |-> 0, i |-> 0, worker |-> <<>>,
     sum |-> <<>>, results |-> <<>>, written_by |-> <<>>,
     read_early |-> FALSE, result |-> SKIPPED]

(* No CPUTester has read /proc/cpuinfo or a sensor.                        *)
NoCpu ==
    [op |-> "none", cores |-> 0, sensors |-> <<>>, cores_line |-> <<>>,
     temperature |-> SKIPPED]

(* No GPIOTester has been constructed.                                     *)
NoLifetime ==
    [alive |-> FALSE, op |-> "none", exported |-> {}, before |-> {},
     mine |-> {}, unexport_worked |-> TRUE, tests_run |-> FALSE]

InitTester ==
    /\ tester = NoTester
    /\ call = NoCall
    /\ RunnerIdle
    /\ JsonIdle
    /\ mon = NoMonitoring
    /\ gpio = NoPins
    /\ sysfs = NoSysfs
    /\ mc = NoThreads
    /\ cpu = NoCpu
    /\ life = NoLifetime
    /\ ifaces = NoMonitoring

(* The constructor probes the host and caches the availability flag.       *)
Construct(name, available) ==
    /\ pc = "idle"
    /\ ~tester.alive
    /\ tester' = [name |-> name, available |-> available, alive |-> TRUE]
    /\ call' = NoCall
    /\ UNCHANGED <<runner_vars, other_vars>>

CallShortTest ==
    /\ tester.alive
    /\ \E exec \in ShortExecs[tester.name][tester.available] :
           call' = Called("short_test", 0, exec)
    /\ UNCHANGED <<tester, runner_vars, other_vars>>

CallMonitorTest(d) ==
    /\ tester.alive
    /\ \E exec \in MonitorExecs[tester.name][tester.available][d] :
           call' = Called("monitor_test", d, exec)
    /\ UNCHANGED <<tester, runner_vars, other_vars>>

Destroy ==
    /\ tester.alive
    /\ tester' = NoTester
    /\ call' = NoCall
    /\ UNCHANGED <<runner_vars, other_vars>>

NextTester ==
    \/ \E name \in Registered, available \in BOOLEAN :
           Construct(name, available)
    \/ CallShortTest
    \/ \E d \in Durations : CallMonitorTest(d)
    \/ Destroy

SpecTester == InitTester /\ [][NextTester]_vars

---------------------------------------------------------------------------
(* main() of nxp_imx93_hw_vv_tool                                          *)

(* --duration values given on the command line; 10 is the default.         *)
RunnerDurations == {0, 1, 10}

(* The peripheral names given on the command line: two registered ones    *)
(* and one that is not a key of tester_registry.                           *)
Names == {"cpu", "gpio", "wifi"}

(* steady_clock readings of the calls made by main()                       *)
RunnerClocks == {[start_time |-> 0, end_time |-> 7]}

(* The executions of short_test and monitor_test that a run of main() can  *)
(* see.                                                                    *)
RunnerShortExecs ==
    [name \in Registered |-> [available \in BOOLEAN |->
        {short_test(name, available, in, clock) :
            in \in ShortInputs(name), clock \in RunnerClocks}]]

RunnerMonitorExecs ==
    [name \in Registered |-> [available \in BOOLEAN |->
        [d \in RunnerDurations |->
            {monitor_test(name, available, d, in, clock) :
                in \in MonitorInputs(name, d), clock \in RunnerClocks}]]]

(* What CLI11_PARSE leaves in the variables of main(): the subcommands     *)
(* seen, the --all flags, the number of positional peripheral names of     *)
(* each subcommand, --duration and --json.  The names themselves are read  *)
(* by the loops that walk test_peripherals and monitor_peripherals; names  *)
(* given next to --all are never read and are left out.                    *)
Commands ==
    {c \in [list : BOOLEAN, test : BOOLEAN, test_all : BOOLEAN,
            test_count : 0..MaxArgs, monitor : BOOLEAN,
            monitor_all : BOOLEAN, monitor_count : 0..MaxArgs,
            monitor_duration : RunnerDurations, json_output : BOOLEAN] :
        /\ ~c.test => ~c.test_all
        /\ (~c.test \/ c.test_all) => c.test_count = 0
        /\ ~c.monitor => (~c.monitor_all /\ c.monitor_duration = 10)
        /\ (~c.monitor \/ c.monitor_all) => c.monitor_count = 0}

(* is_available() of the eleven testers on the host that is listed         *)
Hosts ==
    {h \in [Registered -> BOOLEAN] :
        Cardinality({n \in Registered : h[n]}) \in {0, 1, 10, 11}}

AvailabilityText(available) ==
    IF available THEN "Available" ELSE "Not Available"

(* list_peripherals() walking only the testers that are available          *)
list_peripherals_available_only(host) ==
    SelectSeq([i \in 1..Len(tester_registry) |->
                  [name |-> tester_registry[i],
                   available |-> host[tester_registry[i]],
                   text |-> AvailabilityText(host[tester_registry[i]])]],
              LAMBDA line : line.available)

(* list_peripherals(): one line per registry entry, in map order           *)
list_peripherals(host) ==
    [i \in 1..Len(tester_registry) |->
        [name |-> tester_registry[i],
         available |-> host[tester_registry[i]],
         text |-> AvailabilityText(host[tester_registry[i]])]]

(* run_test that never takes the "Not available, skipping" return          *)
ShouldSkip_never(available) == FALSE

(* run_test: if (!tester->is_available()) { LOG_WARN(...); return; }       *)
ShouldSkip(available) == ~available

(* a skip that files a default constructed report under the name          *)
SkipReports_recording_SKIPPED(rs, name) ==
    Append(rs, [DefaultReport EXCEPT
                    !.peripheral_name = get_peripheral_name(name)])

(* run_test: the return after LOG_WARN leaves the vector as it is          *)
SkipReports(rs, name) == rs

(* a counter that counts FAILURE reports only                              *)
CountFailure_only_FAILURE(failed, report) ==
    IF report.result = FAILURE THEN failed + 1 ELSE failed

(* run_test: if (report.result != SUCCESS) failed_tests++                  *)
CountFailure(failed, report) ==
    IF report.result # SUCCESS THEN failed + 1 ELSE failed

(* an exit code that ignores the counter                                   *)
ExitCode_always_zero(failed) == 0

(* return failed_tests == 0 ? 0 : 1                                        *)
ExitCode(failed) == IF failed = 0 THEN 0 ELSE 1

(* int main(): the command line is parsed, no loop has started.            *)
Main(c) ==
    /\ pc = "idle"
    /\ ~tester.alive
    /\ call = NoCall
    /\ cmd' = c
    /\ pc' = IF c.list THEN "list" ELSE "test"
    /\ idx' = 1
    /\ UNCHANGED <<other_vars, tester, call, reports, failed_tests, last, test_calls,
                   listing, summary, exit_code>>

(* the list subcommand: list_peripherals(); return 0;                      *)
HandleList ==
    /\ pc = "list"
    /\ \E host \in Hosts : listing' = list_peripherals(host)
    /\ exit_code' = 0
    /\ pc' = "done"
    /\ UNCHANGED <<other_vars, tester, call, cmd, reports, failed_tests, idx, last,
                   test_calls, summary>>

(* The lambda run_test(name, is_monitor, duration).  At most MaxReports    *)
(* testers of the host are available to one run.                           *)
run_test(name, is_monitor, duration) ==
    IF name \notin Registered
    THEN /\ last' = [name |-> name, is_monitor |-> is_monitor,
                     known |-> FALSE, available |-> FALSE,
                     called |-> FALSE]
         /\ UNCHANGED <<reports, failed_tests, test_calls>>
    ELSE \E available \in BOOLEAN :
           /\ available => Len(reports) < MaxReports
           /\ IF ShouldSkip(available)
              THEN /\ last' = [name |-> name, is_monitor |-> is_monitor,
                               known |-> TRUE, available |-> available,
                               called |-> FALSE]
                   /\ reports' = SkipReports(reports, name)
                   /\ UNCHANGED <<failed_tests, test_calls>>
              ELSE \E exec \in
                       IF is_monitor
                       THEN RunnerMonitorExecs[name][available][duration]
                       ELSE RunnerShortExecs[name][available] :
                     /\ reports' = Append(reports, exec.report)
                     /\ failed_tests' =
                            CountFailure(failed_tests, exec.report)
                     /\ test_calls' = test_calls + 1
                     /\ last' = [name |-> name, is_monitor |-> is_monitor,
                                 known |-> TRUE, available |-> available,
                                 called |-> TRUE]

(* test --all: for (pair : tester_registry) run_test(pair.first, false)    *)
TestAll ==
    /\ pc = "test"
    /\ cmd.test /\ cmd.test_all
    /\ idx <= Len(tester_registry)
    /\ run_test(tester_registry[idx], FALSE, 0)
    /\ idx' = idx + 1
    /\ UNCHANGED <<other_vars, tester, call, pc, cmd, listing, summary, exit_code>>

(* test <names>: for (peripheral : test_peripherals) run_test(peripheral)  *)
TestNamed ==
    /\ pc = "test"
    /\ cmd.test /\ ~cmd.test_all
    /\ idx <= cmd.test_count
    /\ \E name \in Names : run_test(name, FALSE, 0)
    /\ idx' = idx + 1
    /\ UNCHANGED <<other_vars, tester, call, pc, cmd, listing, summary, exit_code>>

(* test with neither --all nor a name: the error text and return 1         *)
TestUsage ==
    /\ pc = "test"
    /\ cmd.test /\ ~cmd.test_all /\ cmd.test_count = 0
    /\ exit_code' = 1
    /\ pc' = "done"
    /\ UNCHANGED <<other_vars, tester, call, cmd, reports, failed_tests, idx, last,
                   test_calls, listing, summary>>

(* The test subcommand was not given, or its loop has ended.               *)
TestEnd ==
    /\ pc = "test"
    /\ \/ ~cmd.test
       \/ cmd.test_all /\ idx > Len(tester_registry)
       \/ ~cmd.test_all /\ cmd.test_count > 0 /\ idx > cmd.test_count
    /\ pc' = "monitor"
    /\ idx' = 1
    /\ UNCHANGED <<other_vars, tester, call, cmd, reports, failed_tests, last,
                   test_calls, listing, summary, exit_code>>

(* monitor --all                                                           *)
MonitorAll ==
    /\ pc = "monitor"
    /\ cmd.monitor /\ cmd.monitor_all
    /\ idx <= Len(tester_registry)
    /\ run_test(tester_registry[idx], TRUE, cmd.monitor_duration)
    /\ idx' = idx + 1
    /\ UNCHANGED <<other_vars, tester, call, pc, cmd, listing, summary, exit_code>>

(* monitor <names>                                                         *)
MonitorNamed ==
    /\ pc = "monitor"
    /\ cmd.monitor /\ ~cmd.monitor_all
    /\ idx <= cmd.monitor_count
    /\ \E name \in Names : run_test(name, TRUE, cmd.monitor_duration)
    /\ idx' = idx + 1
    /\ UNCHANGED <<other_vars, tester, call, pc, cmd, listing, summary, exit_code>>

(* monitor with neither --all nor a name: the error text and return 1      *)
MonitorUsage ==
    /\ pc = "monitor"
    /\ cmd.monitor /\ ~cmd.monitor_all /\ cmd.monitor_count = 0
    /\ exit_code' = 1
    /\ pc' = "done"
    /\ UNCHANGED <<other_vars, tester, call, cmd, reports, failed_tests, idx, last,
                   test_calls, listing, summary>>

(* The monitor subcommand was not given, or its loop has ended.            *)
MonitorEnd ==
    /\ pc = "monitor"
    /\ \/ ~cmd.monitor
       \/ cmd.monitor_all /\ idx > Len(tester_registry)
       \/ /\ ~cmd.monitor_all
          /\ cmd.monitor_count > 0
          /\ idx > cmd.monitor_count
    /\ pc' = "finish"
    /\ UNCHANGED <<other_vars, tester, call, cmd, reports, failed_tests, idx, last,
                   test_calls, listing, summary, exit_code>>

(* No subcommand was used: the help text and return 1.                     *)
NoSubcommand ==
    /\ pc = "finish"
    /\ ~cmd.list /\ ~cmd.test /\ ~cmd.monitor
    /\ exit_code' = 1
    /\ pc' = "done"
    /\ UNCHANGED <<other_vars, tester, call, cmd, reports, failed_tests, idx, last,
                   test_calls, listing, summary>>

(* The "summary" object of the JSON output.  reports.size() - failed_tests *)
(* is computed on size_t.                                                  *)
Summary(rs, failed) ==
    [written |-> TRUE, total |-> Len(rs), failed |-> failed,
     passed |-> (Len(rs) - failed) % Uint64Modulus]

(* The JSON output, when asked for, and the exit code.                     *)
Finish ==
    /\ pc = "finish"
    /\ cmd.list \/ cmd.test \/ cmd.monitor
    /\ summary' = IF cmd.json_output THEN Summary(reports, failed_tests)
                  ELSE summary
    /\ exit_code' = ExitCode(failed_tests)
    /\ pc' = "done"
    /\ UNCHANGED <<other_vars, tester, call, cmd, reports, failed_tests, idx, last,
                   test_calls, listing>>

NextRunner ==
    \/ \E c \in Commands : Main(c)
    \/ HandleList
    \/ TestAll
    \/ TestNamed
    \/ TestUsage
    \/ TestEnd
    \/ MonitorAll
    \/ MonitorNamed
    \/ MonitorUsage
    \/ MonitorEnd
    \/ NoSubcommand
    \/ Finish

Init == InitTester

Next == NextTester \/ NextRunner

Spec == Init /\ [][Next]_vars

---------------------------------------------------------------------------
(* Properties of the testers, checked under SpecTester                     *)

Returned == tester.alive /\ call.method # "none"

AllSupportedPassed(checks) ==
    \A k \in DOMAIN checks : checks[k] # NOT_SUPPORTED => checks[k] = SUCCESS

(* C2: short_test() of an available tester returns SUCCESS if and only if  *)
(* every sub-check that is not NOT_SUPPORTED returned SUCCESS (a           *)
(* NOT_SUPPORTED sub-check never makes the result FAILURE, a FAILURE       *)
(* sub-check always does).                                                 *)
C2_SuccessIffSupportedChecksPass ==
    (Returned /\ tester.available /\ call.method = "short_test") =>
        (call.report.result = SUCCESS <=> AllSupportedPassed(call.checks))

(* C9: on an available tester the report of short_test() and of            *)
(* monitor_test(d) carries the tester's get_peripheral_name() and a        *)
(* duration that is not negative.                                          *)
C9_NameAndDuration ==
    (Returned /\ tester.available) =>
        /\ call.report.peripheral_name = get_peripheral_name(tester.name)
        /\ call.report.duration >= 0

C9_Witness ==
    /\ Returned
    /\ tester.available
    /\ tester.name = "form_factor"
    /\ call.method = "monitor_test"
    /\ call.report.peripheral_name = "Form Factor"
    /\ call.report.duration > 0

(* C10: no short_test() and no monitor_test(d) returns SKIPPED or TIMEOUT; *)
(* the result is SUCCESS, FAILURE or NOT_SUPPORTED.                        *)
C10_NeverSkippedOrTimeout ==
    Returned => call.report.result \in {SUCCESS, FAILURE, NOT_SUPPORTED}

C10_Witness ==
    /\ Returned
    /\ tester.available
    /\ call.method = "monitor_test"
    /\ call.duration = 0
    /\ call.report.result = NOT_SUPPORTED

---------------------------------------------------------------------------
(* Properties of the runner, checked under Spec                            *)

FailedCount(rs) == Cardinality({i \in 1..Len(rs) : rs[i].result # SUCCESS})

(* C3: at every point of a run of main(), after any sequence of run_test   *)
(* calls, failed_tests is the number of appended reports whose result is   *)
(* not SUCCESS and lies between 0 and the number of reports; the JSON      *)
(* summary, once written, has total = number of reports, failed = that     *)
(* count and passed = total - failed.                                      *)
C3_SummaryCounts ==
    /\ failed_tests = FailedCount(reports)
    /\ 0 <= failed_tests /\ failed_tests <= Len(reports)
    /\ summary.written =>
           /\ summary.total = Len(reports)
           /\ summary.failed = FailedCount(reports)
           /\ summary.passed = summary.total - summary.failed
           /\ 0 <= summary.failed /\ summary.failed <= summary.total

C3_Witness ==
    /\ pc = "done"
    /\ summary.written
    /\ summary.total = 2
    /\ summary.failed = 1
    /\ summary.passed = 1
    /\ \E i \in 1..Len(reports) : reports[i].result = NOT_SUPPORTED

(* C4: a run_test call for a name that is not registered, or whose tester  *)
(* is not available, calls neither short_test nor monitor_test, appends no *)
(* report and leaves failed_tests as it was; main() has not returned and   *)
(* its loop moves on to the next name.                                     *)
C4_SkipLeavesNoTrace ==
    [][(/\ pc \in {"test", "monitor"}
        /\ idx' = idx + 1
        /\ ~last'.known \/ ~last'.available)
       => /\ ~last'.called
          /\ test_calls' = test_calls
          /\ reports' = reports
          /\ failed_tests' = failed_tests
          /\ pc' = pc
          /\ exit_code' = -1]_vars

C4_Witness ==
    /\ pc = "test"
    /\ cmd.test /\ ~cmd.test_all
    /\ idx = 3
    /\ Len(reports) = 1
    /\ test_calls = 1
    /\ last.called

(* The run ends with the error text of a subcommand or with the help text. *)
UsageError ==
    \/ cmd.test /\ ~cmd.test_all /\ cmd.test_count = 0
    \/ cmd.monitor /\ ~cmd.monitor_all /\ cmd.monitor_count = 0
    \/ ~cmd.list /\ ~cmd.test /\ ~cmd.monitor

(* C5: when main() has returned, the exit code is 0 for the list           *)
(* subcommand; otherwise 1 when no subcommand was given or when test or    *)
(* monitor was given with neither --all nor a name; otherwise 0 if and     *)
(* only if failed_tests is 0, that is every executed test reported         *)
(* SUCCESS, and 1 if not.                                                  *)
C5_ExitCode ==
    pc = "done" =>
        /\ exit_code \in {0, 1}
        /\ cmd.list => exit_code = 0
        /\ (~cmd.list /\ UsageError) => exit_code = 1
        /\ (~cmd.list /\ ~UsageError) =>
               /\ exit_code = 0 <=> failed_tests = 0
               /\ failed_tests = 0 <=>
                      \A i \in 1..Len(reports) : reports[i].result = SUCCESS

C5_Witness ==
    /\ pc = "done"
    /\ ~cmd.list /\ ~UsageError
    /\ Len(reports) = 2
    /\ failed_tests = 1
    /\ exit_code = 1

(* The command line "monitor gpio --duration 1", gpio being the name       *)
(* run_test has just handled and /sys/class/gpio missing.                  *)
GpioMonitorRun ==
    /\ ~cmd.list /\ ~cmd.test
    /\ cmd.monitor /\ ~cmd.monitor_all
    /\ cmd.monitor_count = 1
    /\ cmd.monitor_duration = 1
    /\ last.name = "gpio" /\ last.is_monitor
    /\ last.known /\ ~last.available

(* C6: GPIOTester::monitor_test(1 s) called on a tester constructed        *)
(* without /sys/class/gpio returns NOT_SUPPORTED with details exactly      *)
(* "GPIO sysfs interface not available"; the runner, given                 *)
(* monitor gpio --duration 1 on such a host, does not make that call and   *)
(* ends with no report at all and exit code 0.                             *)
C6_GpioMonitorUnavailable ==
    /\ (/\ tester.alive /\ tester.name = "gpio" /\ ~tester.available
        /\ call.method = "monitor_test" /\ call.duration = 1)
       => /\ call.report.result = NOT_SUPPORTED
          /\ call.report.details = <<"GPIO sysfs interface not available">>
    /\ (GpioMonitorRun /\ pc = "done")
       => /\ reports = <<>>
          /\ test_calls = 0
          /\ exit_code = 0

C6_Witness ==
    /\ GpioMonitorRun
    /\ pc = "done"
    /\ reports = <<>>
    /\ exit_code = 0

(* C6 as stated: the run produces a NOT_SUPPORTED report for gpio.         *)
C6_RunnerReportsNotSupported ==
    (GpioMonitorRun /\ pc = "done") =>
        \E i \in 1..Len(reports) :
            /\ reports[i].peripheral_name = get_peripheral_name("gpio")
            /\ reports[i].result = NOT_SUPPORTED
            /\ reports[i].details = <<"GPIO sysfs interface not available">>

(* C7: the runner records nothing for a peripheral that is not available:  *)
(* no report is appended for it, every report of the aggregate is the      *)
(* return value of a short_test or monitor_test call, and none has the     *)
(* result SKIPPED.                                                         *)
C7_NothingRecordedForUnavailable ==
    /\ Len(reports) = test_calls
    /\ \A i \in 1..Len(reports) : reports[i].result # SKIPPED
    /\ (last.known /\ ~last.available) => ~last.called

C7_Witness ==
    /\ pc = "done"
    /\ cmd.test /\ cmd.test_count = 1
    /\ ~cmd.monitor
    /\ last.known /\ ~last.available
    /\ reports = <<>>

(* C7 as stated: a SKIPPED report for the unavailable peripheral is in the *)
(* aggregate.                                                              *)
C7_SkippedIsRecorded ==
    (pc = "done" /\ last.known /\ ~last.available) =>
        \E i \in 1..Len(reports) :
            /\ reports[i].result = SKIPPED
            /\ reports[i].peripheral_name = get_peripheral_name(last.name)

(* C8: the registry has exactly the eleven names, and the list subcommand  *)
(* prints each of them once, with the availability its tester reports,     *)
(* calls no short_test and no monitor_test and appends no report.          *)
C8_ListNamesEleven ==
    /\ Registered = {"cpu", "gpio", "camera", "gpu", "memory", "storage",
                     "display", "usb", "networking", "power", "form_factor"}
    /\ Len(tester_registry) = 11
    /\ (pc = "done" /\ cmd.list) =>
           /\ Len(listing) = 11
           /\ \A n \in Registered :
                  Cardinality({i \in 1..Len(listing) :
                                  listing[i].name = n}) = 1
           /\ \A i \in 1..Len(listing) :
                  listing[i].text = IF listing[i].available
                                    THEN "Available" ELSE "Not Available"
           /\ test_calls = 0
           /\ reports = <<>>
           /\ call = NoCall
    /\ ~cmd.list => listing = <<>>

C8_Witness ==
    /\ pc = "done"
    /\ cmd.list /\ cmd.test
    /\ Len(listing) = 11
    /\ \E i \in 1..Len(listing) :
           listing[i].name = "gpio" /\ listing[i].text = "Not Available"
    /\ \E i \in 1..Len(listing) :
           listing[i].name = "cpu" /\ listing[i].text = "Available"

---------------------------------------------------------------------------
(* JsonWriter::escape_string.  A std::string is a sequence of bytes, each  *)
(* a number in 0..255.                                                     *)

MaxLen == 3           \* length of the strings handed to escape_string

(* The bytes escape_string and the JSON grammar name.                      *)
Char ==
    [quote |-> 34, backslash |-> 92, slash |-> 47, backspace |-> 8,
     form_feed |-> 12, newline |-> 10, carriage_return |-> 13, tab |-> 9,
     zero |-> 48, b |-> 98, f |-> 102, n |-> 110, r |-> 114, t |-> 116,
     u |-> 117, unit_separator |-> 31, space |-> 32]

(* The cases of the switch that have a two character escape.               *)
NamedEscapes ==
    {Char.quote, Char.backslash, Char.backspace, Char.form_feed,
     Char.newline, Char.carriage_return, Char.tab}

(* ss << std::setw(4) << std::setfill('0') << static_cast<unsigned char>(c) *)
(* is a character insertion: the stream pads the one character to the      *)
(* field width with the fill character, on the left, and writes the        *)
(* character itself.  std::hex has no effect on a character.               *)
InsertPadded(width, fill, c) ==
    [i \in 1..(width - 1) |-> fill] \o <<c>>

(* What the loop body of escape_string appends for the character c, with   *)
(* a backslash passed through unescaped.                                   *)
EscapeChar_backslash_raw(c) ==
    CASE c = Char.quote -> <<Char.backslash, Char.quote>>
      [] c = Char.backspace -> <<Char.backslash, Char.b>>
      [] c = Char.form_feed -> <<Char.backslash, Char.f>>
      [] c = Char.newline -> <<Char.backslash, Char.n>>
      [] c = Char.carriage_return -> <<Char.backslash, Char.r>>
      [] c = Char.tab -> <<Char.backslash, Char.t>>
      [] OTHER -> <<c>>

(* The switch of escape_string: what the loop body appends for c.          *)
EscapeChar(c) ==
    CASE c = Char.quote -> <<Char.backslash, Char.quote>>
      [] c = Char.backslash -> <<Char.backslash, Char.backslash>>
      [] c = Char.backspace -> <<Char.backslash, Char.b>>
      [] c = Char.form_feed -> <<Char.backslash, Char.f>>
      [] c = Char.newline -> <<Char.backslash, Char.n>>
      [] c = Char.carriage_return -> <<Char.backslash, Char.r>>
      [] c = Char.tab -> <<Char.backslash, Char.t>>
      [] OTHER -> IF c <= Char.unit_separator
                  THEN <<Char.backslash, Char.u>>
                           \o InsertPadded(4, Char.zero, c)
                  ELSE <<c>>

RECURSIVE EscapeBody(_)
EscapeBody(str) ==
    IF str = <<>> THEN <<>>
    ELSE EscapeChar(Head(str)) \o EscapeBody(Tail(str))

escape_string(str) == <<Char.quote>> \o EscapeBody(str) \o <<Char.quote>>

(* The strings the callers build: the characters with a named escape, two  *)
(* other control bytes, and printable characters, among them the letters   *)
(* that follow a backslash in an escape.                                   *)
JsonBytes ==
    NamedEscapes \cup {1, Char.unit_separator}
        \cup {Char.space, Char.slash, Char.zero, Char.n, Char.u}

(* The caller appends one more character to the string it is building.     *)
AppendChar(c) ==
    /\ pc = "idle" /\ ~tester.alive
    /\ json_out = <<>>
    /\ Len(json_in) < MaxLen
    /\ json_in' = Append(json_in, c)
    /\ UNCHANGED <<json_out, tester, call, runner_vars, mon, gpio, sysfs, mc, cpu, life, ifaces>>

(* JsonWriter::escape_string(json_in) returns.                             *)
EscapeString ==
    /\ pc = "idle" /\ ~tester.alive
    /\ json_out = <<>>
    /\ json_out' = escape_string(json_in)
    /\ UNCHANGED <<json_in, tester, call, runner_vars, mon, gpio, sysfs, mc, cpu, life, ifaces>>

NextJson ==
    \/ \E c \in JsonBytes : AppendChar(c)
    \/ EscapeString

SpecJson == InitTester /\ [][NextJson]_vars

---------------------------------------------------------------------------
(* Properties of JsonWriter::escape_string, checked under SpecJson         *)

(* The string grammar of RFC 8259, section 7: the value of a hexadecimal   *)
(* digit, -1 for any other byte.                                           *)
HexValue(c) ==
    IF c \in 48..57 THEN c - 48
    ELSE IF c \in 97..102 THEN c - 87
    ELSE IF c \in 65..70 THEN c - 55
    ELSE -1

(* What a JSON parser answers for a text that is not a string.             *)
NotJson == <<-1>>

(* The character a two character escape stands for, -1 if there is none.   *)
Unescaped(c) ==
    CASE c = Char.quote -> Char.quote
      [] c = Char.backslash -> Char.backslash
      [] c = Char.slash -> Char.slash
      [] c = Char.b -> Char.backspace
      [] c = Char.f -> Char.form_feed
      [] c = Char.n -> Char.newline
      [] c = Char.r -> Char.carriage_return
      [] c = Char.t -> Char.tab
      [] OTHER -> -1

(* The characters of text from position i up to the closing quote, which   *)
(* has to be the last byte of text.                                        *)
RECURSIVE JsonChars(_, _)
JsonChars(text, i) ==
    IF i > Len(text) THEN NotJson
    ELSE IF text[i] = Char.quote
         THEN IF i = Len(text) THEN <<>> ELSE NotJson
    ELSE IF text[i] < Char.space THEN NotJson
    ELSE IF text[i] # Char.backslash
         THEN LET rest == JsonChars(text, i + 1)
              IN IF rest = NotJson THEN NotJson ELSE <<text[i]>> \o rest
    ELSE IF i + 1 > Len(text) THEN NotJson
    ELSE IF text[i + 1] = Char.u
         THEN IF \/ i + 5 > Len(text)
                 \/ \E k \in 2..5 : HexValue(text[i + k]) = -1
              THEN NotJson
              ELSE LET code == 4096 * HexValue(text[i + 2])
                                   + 256 * HexValue(text[i + 3])
                                   + 16 * HexValue(text[i + 4])
                                   + HexValue(text[i + 5])
                       rest == JsonChars(text, i + 6)
                   IN IF rest = NotJson \/ code > 127 THEN NotJson
                      ELSE <<code>> \o rest
    ELSE IF Unescaped(text[i + 1]) = -1 THEN NotJson
    ELSE LET rest == JsonChars(text, i + 2)
         IN IF rest = NotJson THEN NotJson
            ELSE <<Unescaped(text[i + 1])>> \o rest

(* The string a JSON parser reads from text.                               *)
JsonDecode(text) ==
    IF Len(text) < 2 \/ text[1] # Char.quote THEN NotJson
    ELSE JsonChars(text, 2)

(* A string made of the named escapes and of printable characters only.    *)
NoOtherControl(str) ==
    \A i \in 1..Len(str) : str[i] >= Char.space \/ str[i] \in NamedEscapes

(* Position i of text holds a character that a backslash before it         *)
(* escapes: the number of backslashes right before it is odd.              *)
RECURSIVE BackslashesBefore(_, _)
BackslashesBefore(text, i) ==
    IF i > 1 /\ text[i - 1] = Char.backslash
    THEN 1 + BackslashesBefore(text, i - 1)
    ELSE 0

IsEscaped(text, i) == BackslashesBefore(text, i) % 2 = 1

(* C11: for a string of named-escape and printable characters, the output  *)
(* of escape_string starts and ends with a double quote, decodes by the    *)
(* JSON string rules to the input, and has between its two delimiters no   *)
(* raw newline and no double quote or backslash that is not part of an     *)
(* escape.                                                                 *)
C11_EscapeRoundTrip ==
    (json_out # <<>> /\ NoOtherControl(json_in)) =>
        /\ Len(json_out) >= 2
        /\ json_out[1] = Char.quote
        /\ json_out[Len(json_out)] = Char.quote
        /\ JsonDecode(json_out) = json_in
        /\ \A i \in 2..(Len(json_out) - 1) :
               /\ json_out[i] # Char.newline
               /\ json_out[i] = Char.quote => IsEscaped(json_out, i)
               /\ (json_out[i] = Char.backslash /\ ~IsEscaped(json_out, i))
                      => Unescaped(json_out[i + 1]) # -1

C11_Witness ==
    /\ json_in = <<Char.quote, Char.backslash, Char.newline>>
    /\ json_out = <<Char.quote, Char.backslash, Char.quote,
                    Char.backslash, Char.backslash,
                    Char.backslash, Char.n, Char.quote>>
    /\ JsonDecode(json_out) = json_in

(* C12: for a one byte string whose byte c is below 0x20 and has no named  *)
(* escape, escape_string returns, between the two quotes, backslash, u,    *)
(* 0, 0 and the two hexadecimal digits of c; and no output of              *)
(* escape_string holds a raw byte below 0x20.                              *)
C12_ControlByteAsUnicodeEscape ==
    json_out # <<>> =>
        /\ \A i \in 1..Len(json_out) : json_out[i] >= Char.space
        /\ (Len(json_in) = 1 /\ ~NoOtherControl(json_in)) =>
               /\ Len(json_out) = 8
               /\ SubSeq(json_out, 2, 5)
                      = <<Char.backslash, Char.u, Char.zero, Char.zero>>
               /\ HexValue(json_out[6]) = json_in[1] \div 16
               /\ HexValue(json_out[7]) = json_in[1] % 16

---------------------------------------------------------------------------
(* The monitoring functions called on their own, over longer windows.  w   *)
(* is what the host would show at each polling instant until the duration  *)
(* has elapsed: w[i] is sampled by iteration i if the loop gets that far.  *)
(* The empty window is a duration of zero or less.                         *)

MaxSamples == 3       \* polling instants of a window
MaxReads == 40        \* polling instants of the GPIO monitor (100 ms each)
MaxFailedReads == 3   \* failing reads among them
MaxPings == 6         \* polling instants of the networking monitor

MonitorWindows(S, n) == {<<>>} \cup UNION {[1..k -> S] : k \in 1..n}

(* Windows of the GPIO monitor: n reads of which k fail, the failing ones  *)
(* first or last.                                                          *)
GpioReadWindows ==
    UNION {{[i \in 1..n |-> IF i <= k THEN -1 ELSE i % 2],
            [i \in 1..n |-> IF i > n - k THEN -1 ELSE i % 2]} :
               <<n, k>> \in {p \in (0..MaxReads) \X (0..MaxFailedReads) :
                                p[2] <= p[1]}}

(* A monitoring function returns: what it was given and what it did.       *)
MonitorCall(name, initial, w, reduction) ==
    /\ mon = NoMonitoring
    /\ mon' = [name |-> name, initial |-> initial, w |-> w,
               result |-> reduction.result, polls |-> reduction.polls]
    /\ UNCHANGED <<tester, call, runner_vars, json_vars, gpio, sysfs, mc, cpu, life, ifaces>>

MonitorCPU ==
    \E w \in MonitorWindows({-1, 40, 60, 61}, MaxSamples) :
        MonitorCall("cpu", 0, w, CPUTester_monitor_temperature(w))

MonitorGPU ==
    \E w \in MonitorWindows({-1, 40, 55, 56, 60, 61}, MaxSamples) :
        MonitorCall("gpu", 0, w, GPUTester_monitor_gpu_temperature(w))

MonitorGPIO ==
    \E setup_ok \in BOOLEAN, w \in GpioReadWindows :
        MonitorCall("gpio", setup_ok, w,
                    GPIOTester_monitor_gpio_stability(setup_ok, w))

MonitorMemory ==
    \E total_ram_mb \in {0, 1000},
       w \in MonitorWindows({-1, 400, 500, 501, 1000, 1001}, MaxSamples) :
        MonitorCall("memory", total_ram_mb, w,
                    MemoryTester_monitor_memory_usage(total_ram_mb, w))

MonitorStorage ==
    \E w \in MonitorWindows({<<>>, <<0, 0>>, <<9999, 0>>, <<10000, 0>>,
                             <<0, 9999>>, <<0, 10000>>}, MaxSamples) :
        MonitorCall("storage", 0, w, StorageTester_monitor_storage_io(w))

MonitorDisplay ==
    \E w \in MonitorWindows(SUBSET {"HDMI-A-1", "DSI-1"}, MaxSamples) :
        MonitorCall("display", 0, w,
                    DisplayTester_monitor_display_connection(
                        [i \in 1..Len(w) |-> Cardinality(w[i])]))

MonitorCamera ==
    \E cameras \in SUBSET {"/dev/video0", "/dev/video1"},
       w \in MonitorWindows(SUBSET {"/dev/video0", "/dev/video1"},
                            MaxSamples) :
        MonitorCall("camera", cameras, w,
                    CameraTester_monitor_camera_streaming(cameras, w))

MonitorUSB ==
    \E initial_devices \in SUBSET {"1-1", "1-2"},
       w \in MonitorWindows(SUBSET {"1-1", "1-2"}, MaxSamples) :
        MonitorCall("usb", initial_devices, w,
                    USBTester_monitor_usb_devices(initial_devices, w))

MonitorNetworking ==
    \E w \in MonitorWindows({SUCCESS, FAILURE}, MaxPings) :
        MonitorCall("networking", 0, w,
                    NetworkingTester_monitor_connectivity(w))

MonitorPower ==
    \E initial_info \in PowerInfos, w \in MonitorWindows(PowerInfos, MaxPolls) :
        MonitorCall("power", initial_info, w,
                    PowerTester_monitor_power_consumption(initial_info, w))

MonitorFormFactor ==
    \E initial_temp \in {30, 50},
       w \in MonitorWindows({30, 50, 51}, MaxSamples) :
        MonitorCall("form_factor", initial_temp, w,
                    FormFactorTester_monitor_interfaces(
                        FormFactorTester_enumerate_interfaces,
                        initial_temp, w))

(* The tester whose monitoring function was called is destroyed.          *)
MonitorDone ==
    /\ mon # NoMonitoring
    /\ mon' = NoMonitoring
    /\ UNCHANGED <<tester, call, runner_vars, json_vars, gpio, sysfs, mc, cpu, life, ifaces>>

NextMonitor ==
    \/ MonitorDone
    \/ MonitorCPU
    \/ MonitorGPU
    \/ MonitorGPIO
    \/ MonitorMemory
    \/ MonitorStorage
    \/ MonitorDisplay
    \/ MonitorCamera
    \/ MonitorUSB
    \/ MonitorNetworking
    \/ MonitorPower
    \/ MonitorFormFactor

SpecMonitor == InitTester /\ [][NextMonitor]_vars

---------------------------------------------------------------------------
(* Properties of the monitoring functions, checked under SpecMonitor       *)

(* The entries of the window that gave the monitoring function a sample:   *)
(* a temperature or a MemAvailable value that was read, a pair of counters *)
(* from /proc/diskstats, any enumeration or check.                         *)
Samples(m) ==
    SelectSeq(m.w, LAMBDA x :
        CASE m.name \in {"cpu", "gpu", "memory"} -> x >= 0
          [] m.name = "storage" -> x # <<>>
          [] OTHER -> TRUE)

(* C13: when a monitoring function has returned from a window that gave it *)
(* at least one sample, and all the samples of the window are the same     *)
(* value, the verdict is SUCCESS, also when there is a single sample.      *)
C13_IdenticalSamplesSucceed ==
    (/\ mon.name # ""
     /\ mon.name = "gpio" => mon.initial
     /\ Samples(mon) = mon.w
     /\ Len(mon.w) >= 1
     /\ \A i \in 1..Len(mon.w) : mon.w[i] = mon.w[1])
        => mon.result = SUCCESS

(* The monitoring functions whose while condition tests nothing but the    *)
(* clock, and those whose condition also tests their stability flag.       *)
ClockOnlyLoops == {"cpu", "gpu", "gpio", "memory", "storage", "display"}
FlaggedLoops == {"camera", "usb", "networking", "power", "form_factor"}

(* The monitoring function got as far as its loop.                         *)
EnteredLoop(m) ==
    /\ m.name # ""
    /\ m.name = "gpio" => m.initial
    /\ m.name = "camera" => m.initial # {}

FailedChecks(w) == Cardinality({i \in 1..Len(w) : w[i] # SUCCESS})

(* The longest run of consecutive checks of w that did not return SUCCESS. *)
LongestFailedRun(w) ==
    Max({0} \cup {j - i + 1 : <<i, j>> \in
            {p \in (1..Len(w)) \X (1..Len(w)) :
                p[1] <= p[2] /\ \A k \in p[1]..p[2] : w[k] # SUCCESS}})

(* C16: monitor_connectivity counts the failed checks of the whole window: *)
(* it returns SUCCESS exactly when at most 3 checks failed, and FAILURE at *)
(* the fourth failed check, whether or not a successful check came between *)
(* the failures.                                                           *)
C16_ToleratesThreeFailuresInTotal ==
    mon.name = "networking" =>
        /\ mon.result = SUCCESS <=> FailedChecks(mon.w) <= 3
        /\ mon.result = FAILURE <=> FailedChecks(mon.w) > 3
        /\ mon.result = FAILURE =>
               /\ mon.w[mon.polls] # SUCCESS
               /\ FailedChecks(SubSeq(mon.w, 1, mon.polls)) = 4

C16_Witness ==
    /\ mon.name = "networking"
    /\ mon.w = <<FAILURE, SUCCESS, FAILURE, SUCCESS, FAILURE, FAILURE>>
    /\ LongestFailedRun(mon.w) = 2
    /\ mon.result = FAILURE
    /\ mon.polls = 6

(* C16 as stated: FAILURE only after more than 3 failed checks in a row,   *)
(* SUCCESS whenever no run of failed checks is longer than 3.              *)
C16_ToleratesThreeConsecutiveFailures ==
    mon.name = "networking" =>
        /\ mon.result = FAILURE => LongestFailedRun(mon.w) > 3
        /\ LongestFailedRun(mon.w) <= 3 => mon.result = SUCCESS

(* C17: the camera monitor (with a cached camera list that is not empty)   *)
(* and the USB monitor return SUCCESS exactly when every poll of the       *)
(* window shows the set of device paths taken before the loop, and FAILURE *)
(* when some poll shows another set; the camera monitor returns            *)
(* NOT_SUPPORTED when the cached list is empty.  The display monitor       *)
(* compares numbers: it returns SUCCESS exactly when the window has a poll *)
(* and every poll shows as many connected displays as the first poll.      *)
C17_SetStabilityCameraUsbCountDisplay ==
    /\ mon.name \in {"camera", "usb"} =>
           IF mon.name = "camera" /\ mon.initial = {}
           THEN mon.result = NOT_SUPPORTED
           ELSE /\ mon.result = SUCCESS
                       <=> \A i \in 1..Len(mon.w) : mon.w[i] = mon.initial
                /\ mon.result = FAILURE
                       <=> \E i \in 1..Len(mon.w) : mon.w[i] # mon.initial
    /\ mon.name = "display" =>
           /\ mon.result = SUCCESS
                  <=> /\ Len(mon.w) >= 1
                      /\ \A i \in 1..Len(mon.w) :
                             Cardinality(mon.w[i]) = Cardinality(mon.w[1])
           /\ mon.result \in {SUCCESS, FAILURE}

C17_Witness ==
    /\ mon.name = "display"
    /\ mon.w = <<{"HDMI-A-1"}, {"DSI-1"}>>
    /\ mon.result = SUCCESS

(* The set the monitor starts from: the cached camera list, the USB        *)
(* devices enumerated before the loop, the displays of the first poll.     *)
StartSet(m) == IF m.name = "display" THEN m.w[1] ELSE m.initial

(* C17 as stated: SUCCESS only if every poll shows exactly the set of the  *)
(* start, FAILURE whenever some poll shows another set.                    *)
C17_ExactSetStability ==
    (/\ mon.name \in {"camera", "usb", "display"}
     /\ Len(mon.w) >= 1
     /\ mon.name = "camera" => mon.initial # {})
        => /\ mon.result = SUCCESS
                  => \A i \in 1..Len(mon.w) : mon.w[i] = StartSet(mon)
           /\ (\E i \in 1..Len(mon.w) : mon.w[i] # StartSet(mon))
                  => mon.result = FAILURE

(* The readings of the window that are temperatures (not negative).        *)
ValidTemperatures(w) == {w[i] : i \in {j \in 1..Len(w) : w[j] >= 0}}

Spread(S) == Max(S) - Min(S)

(* The limit of the temperature monitor of a tester, in degrees.           *)
TemperatureLimit(name) == IF name = "cpu" THEN 20 ELSE 15

SucceededReads(w) == Cardinality({i \in 1..Len(w) : w[i] # -1})

Abs(x) == IF x < 0 THEN -x ELSE x

(* C20: when monitor_storage_io has returned from a window with at least   *)
(* two samples of /proc/diskstats, the verdict is SUCCESS exactly when the *)
(* summed read counter and the summed write counter of the last sample     *)
(* each differ from those of the first sample by less than 10000, and      *)
(* FAILURE otherwise, also when the counters went down.                    *)
C20_StorageDriftBelowLimit ==
    (mon.name = "storage" /\ Len(Samples(mon)) >= 2) =>
        LET counts == Samples(mon)
            first == counts[1]
            final == counts[Len(counts)]
        IN /\ mon.result \in {SUCCESS, FAILURE}
           /\ mon.result = SUCCESS
                  <=> /\ Abs(final[1] - first[1]) < 10000
                      /\ Abs(final[2] - first[2]) < 10000

(* The memory in use at a sample, as the whole number the subtraction      *)
(* total RAM minus available RAM denotes.                                  *)
UsedMemory(m) ==
    {m.initial - Samples(m)[i] : i \in 1..Len(Samples(m))}

(* C21: when monitor_memory_usage has returned, the verdict is SUCCESS     *)
(* exactly when at least one sample was obtained and the largest memory in *)
(* use minus the smallest is at most 10% of the total RAM cached at        *)
(* construction, also for samples where the available RAM is above the     *)
(* cached total; otherwise the verdict is FAILURE.                         *)
C21_MemoryVariationWithinTenPercent ==
    mon.name = "memory" =>
        /\ mon.result \in {SUCCESS, FAILURE}
        /\ mon.result = SUCCESS
               <=> /\ Samples(mon) # <<>>
                   /\ 10 * (Max(UsedMemory(mon)) - Min(UsedMemory(mon)))
                          <= mon.initial

(* What get_power_info() returned before the loop (index 0) and at the     *)
(* polls the loop performed.                                               *)
PowerInfoAt(m, i) == IF i = 0 THEN m.initial ELSE m.w[i]

(* The poll at which the power source seen at poll i was first seen        *)
(* without interruption: the baseline the drain at poll i is measured from.*)
SourceSince(m, i) ==
    Min({j \in 0..i :
            \A k \in j..i : PowerInfoAt(m, k).source = PowerInfoAt(m, i).source})

(* C22: when monitor_power_consumption has returned, the verdict is        *)
(* FAILURE exactly when at some performed poll the battery is present now  *)
(* and at the baseline, and the percentage is more than 50 points below    *)
(* the baseline, where the baseline is the reading taken when the power    *)
(* source last changed (the reading before the loop when it never did);    *)
(* a drop of exactly 50 passes; otherwise the verdict is SUCCESS.          *)
C22_BatteryDrainSinceSourceChange ==
    mon.name = "power" =>
        /\ mon.result \in {SUCCESS, FAILURE}
        /\ mon.result = FAILURE
               <=> \E i \in 1..mon.polls :
                      LET current_info == PowerInfoAt(mon, i)
                          baseline == PowerInfoAt(mon, SourceSince(mon, i))
                      IN /\ current_info.battery_present
                         /\ baseline.battery_present
                         /\ baseline.battery_percentage
                                - current_info.battery_percentage > 50

(* The battery was at 61% before the loop, the source changed to the AC    *)
(* adapter and back, and the battery is at 10%: no alarm.                  *)
C22_Witness ==
    /\ mon.name = "power"
    /\ mon.initial = [source |-> "BATTERY", battery_present |-> TRUE,
                      battery_percentage |-> 61]
    /\ Len(mon.w) = 2
    /\ mon.w[1].source = "AC_ADAPTER"
    /\ mon.w[2] = [source |-> "BATTERY", battery_present |-> TRUE,
                   battery_percentage |-> 10]
    /\ mon.polls = 2
    /\ mon.result = SUCCESS

(* C22 as stated: FAILURE exactly when at some poll with a battery present *)
(* the percentage is more than 50 points below the reading from the start  *)
(* of the window, whatever power-source changes occur.                     *)
C22_BatteryDrainSinceStart ==
    mon.name = "power" =>
        /\ mon.result \in {SUCCESS, FAILURE}
        /\ mon.result = FAILURE
               <=> \E i \in 1..mon.polls :
                      /\ mon.w[i].battery_present
                      /\ mon.initial.battery_percentage
                             - mon.w[i].battery_percentage > 50

---------------------------------------------------------------------------
(* GPIOTester and the pins under /sys/class/gpio.  exported is the set of  *)
(* pins that have a /sys/class/gpio/gpioN directory.  An operation returns *)
(* the new set, the pins its export_gpio calls returned true for, and its  *)
(* TestResult.                                                             *)

(* What the host does during one operation: whether the export and         *)
(* unexport files open for writing, whether the kernel exports the pin     *)
(* written, and the pin and step at which a sysfs access fails, if any.    *)
GpioSteps ==
    {"none", "direction_out", "write_high", "write_low", "direction_in",
     "read"}

GpioHosts ==
    [export_opens : BOOLEAN, kernel_exports : BOOLEAN,
     unexport_opens : BOOLEAN, fail_pin : {0, 2}, fail_step : GpioSteps,
     pwmchip_exists : BOOLEAN]

(* GPIOTester::export_gpio: the set of exported pins afterwards; the call  *)
(* returns true when the file opened and gpioN exists afterwards.          *)
export_gpio(exported, pin, host) ==
    IF host.export_opens /\ host.kernel_exports
    THEN exported \cup {pin} ELSE exported

export_gpio_returns(exported, pin, host) ==
    host.export_opens /\ pin \in export_gpio(exported, pin, host)

(* GPIOTester::unexport_gpio *)
unexport_gpio(exported, pin, host) ==
    IF host.unexport_opens THEN exported \ {pin} ELSE exported

GpioOutcome(exported, by_op, result) ==
    [exported |-> exported, by_op |-> by_op, result |-> result]

(* GPIOTester::test_digital_io from the pin test_gpios[k] on               *)
RECURSIVE GPIOTester_digital_io_loop(_, _, _, _)
GPIOTester_digital_io_loop(exported, by_op, k, host) ==
    LET test_gpios == <<0, 1, 2>>
        gpio_pin == test_gpios[k]
    IN IF k > Len(test_gpios) THEN GpioOutcome(exported, by_op, SUCCESS)
       ELSE IF ~export_gpio_returns(exported, gpio_pin, host)
            THEN GpioOutcome(export_gpio(exported, gpio_pin, host), by_op,
                             FAILURE)
       ELSE LET after == export_gpio(exported, gpio_pin, host)
                mine == by_op \cup {gpio_pin}
                released == unexport_gpio(after, gpio_pin, host)
            IN IF host.fail_pin = gpio_pin /\ host.fail_step # "none"
               THEN GpioOutcome(released, mine, FAILURE)
               ELSE GPIOTester_digital_io_loop(released, mine, k + 1, host)

GPIOTester_digital_io_pins(exported, host) ==
    GPIOTester_digital_io_loop(exported, {}, 1, host)

(* GPIOTester::test_pwm *)
GPIOTester_pwm_pins(exported, host) ==
    LET pwm_gpio == 18
        after == export_gpio(exported, pwm_gpio, host)
    IN IF ~export_gpio_returns(exported, pwm_gpio, host)
       THEN GpioOutcome(after, {}, FAILURE)
       ELSE GpioOutcome(unexport_gpio(after, pwm_gpio, host), {pwm_gpio},
                        IF host.pwmchip_exists THEN SUCCESS
                        ELSE NOT_SUPPORTED)

(* GPIOTester::monitor_gpio_stability over the reads w; the direction is   *)
(* set once, before the loop.                                              *)
GPIOTester_monitor_pins(exported, host, w) ==
    LET test_gpio == 2
        after == export_gpio(exported, test_gpio, host)
        direction_set ==
            ~(host.fail_pin = test_gpio /\ host.fail_step = "direction_in")
    IN IF ~export_gpio_returns(exported, test_gpio, host)
       THEN GpioOutcome(after, {}, FAILURE)
       ELSE IF ~direction_set
            THEN GpioOutcome(after, {test_gpio}, FAILURE)
       ELSE GpioOutcome(unexport_gpio(after, test_gpio, host), {test_gpio},
                        GPIOTester_monitor_gpio_stability(TRUE, w).result)

(* the pins of test_pins_ without those of test_digital_io                 *)
test_pins_from_3 ==
    (3..7) \cup (32..37) \cup (64..67) \cup (96..99) \cup (128..130)

(* The pin numbers of test_pins_, set by the constructor.                  *)
test_pins ==
    (0..7) \cup (32..37) \cup (64..67) \cup (96..99) \cup (128..130)

(* An operation of the tester has returned.                                *)
GpioReturned(op, host, outcome) ==
    gpio' = [alive |-> TRUE, op |-> op, input |-> host,
             exported |-> outcome.exported, by_op |-> outcome.by_op,
             result |-> outcome.result]

gpio_unchanged == <<tester, call, runner_vars, json_vars, mon, sysfs, mc, cpu, life, ifaces>>

(* GPIOTester::GPIOTester on a host with /sys/class/gpio, where some pins  *)
(* may be exported already; the constructor exports nothing.               *)
GpioConstruct(pre_exported) ==
    /\ ~gpio.alive
    /\ gpio' = [NoPins EXCEPT !.alive = TRUE, !.op = "constructor",
                              !.exported = pre_exported]
    /\ UNCHANGED gpio_unchanged

GpioDigitalIO(host) ==
    /\ gpio.alive
    /\ GpioReturned("test_digital_io", host,
                    GPIOTester_digital_io_pins(gpio.exported, host))
    /\ UNCHANGED gpio_unchanged

GpioPwm(host) ==
    /\ gpio.alive
    /\ GpioReturned("test_pwm", host,
                    GPIOTester_pwm_pins(gpio.exported, host))
    /\ UNCHANGED gpio_unchanged

GpioMonitor(host, w) ==
    /\ gpio.alive
    /\ GpioReturned("monitor_gpio_stability", host,
                    GPIOTester_monitor_pins(gpio.exported, host, w))
    /\ UNCHANGED gpio_unchanged

(* GPIOTester::~GPIOTester: unexport_gpio on every pin of test_pins_       *)
GpioDestroy(host) ==
    /\ gpio.alive
    /\ gpio' = [alive |-> FALSE, op |-> "destructor", input |-> host,
                exported |-> IF host.unexport_opens
                             THEN gpio.exported \ test_pins
                             ELSE gpio.exported,
                by_op |-> {}, result |-> SKIPPED]
    /\ UNCHANGED gpio_unchanged

NextGpio ==
    \/ \E pre_exported \in SUBSET {2, 18} : GpioConstruct(pre_exported)
    \/ \E host \in GpioHosts : GpioDigitalIO(host)
    \/ \E host \in GpioHosts : GpioPwm(host)
    \/ \E host \in GpioHosts, w \in {<<>>, <<1>>, <<-1>>} :
           GpioMonitor(host, w)
    \/ \E host \in GpioHosts : GpioDestroy(host)

SpecGpio == InitTester /\ [][NextGpio]_vars

---------------------------------------------------------------------------
(* Properties of the GPIO pins, checked under SpecGpio                     *)

GpioOperations == {"test_digital_io", "test_pwm", "monitor_gpio_stability"}

(* C15: when test_digital_io, test_pwm or monitor_gpio_stability has       *)
(* returned, by whatever exit path, on a host where the unexport file can  *)
(* be written, none of the pins for which its export_gpio calls returned   *)
(* true is still exported.                                                 *)
C15_ExportedPinsAreUnexported ==
    (gpio.op \in GpioOperations /\ gpio.input.unexport_opens)
        => gpio.by_op \cap gpio.exported = {}

---------------------------------------------------------------------------
(* Further properties of the testers, checked under SpecTester             *)

(* C23: whenever monitor_test(duration) has been called with a duration of *)
(* zero or less, the call was left by std::invalid_argument and returned   *)
(* no verdict report.                                                      *)
C23_InvalidDurationThrows ==
    (Returned /\ call.method = "monitor_test" /\ call.duration <= 0) =>
        /\ call.thrown = "std::invalid_argument"
        /\ call.report = DefaultReport

---------------------------------------------------------------------------
(* short_test() of the two testers that drive GPIO pins through sysfs,     *)
(* GPIOTester and FormFactorTester, on the state of the pins: which pins   *)
(* are exported, and the direction and the level of each pin.  A write to  *)
(* a direction or value file that opened takes effect; writing "out" to    *)
(* direction drives the pin low.                                           *)

SysfsPins == (0..9) \cup {18}

PinRun(config, result) == [config |-> config, result |-> result]

(* The effect of one successful access of test_digital_io on the pin.      *)
sysfs_write(config, pin, step) ==
    CASE step = "direction_out" ->
             [config EXCEPT !.direction[pin] = "out", !.value[pin] = 0]
      [] step = "write_high" -> [config EXCEPT !.value[pin] = 1]
      [] step = "write_low" -> [config EXCEPT !.value[pin] = 0]
      [] step = "direction_in" -> [config EXCEPT !.direction[pin] = "in"]
      [] OTHER -> config

(* The accesses of one iteration of test_digital_io between export and    *)
(* unexport, from the k-th on; the result is whether all succeeded.        *)
RECURSIVE GPIOTester_digital_io_accesses(_, _, _, _)
GPIOTester_digital_io_accesses(config, pin, k, host) ==
    LET accesses == <<"direction_out", "write_high", "write_low",
                      "direction_in", "read">>
    IN IF k > Len(accesses) THEN PinRun(config, TRUE)
       ELSE IF host.fail_pin = pin /\ host.fail_step = accesses[k]
            THEN PinRun(config, FALSE)
       ELSE GPIOTester_digital_io_accesses(
                sysfs_write(config, pin, accesses[k]), pin, k + 1, host)

(* GPIOTester::test_digital_io from the pin test_gpios[k] on               *)
RECURSIVE GPIOTester_test_digital_io_on(_, _, _)
GPIOTester_test_digital_io_on(config, k, host) ==
    LET test_gpios == <<0, 1, 2>>
        gpio_pin == test_gpios[k]
    IN IF k > Len(test_gpios) THEN PinRun(config, SUCCESS)
       ELSE LET after ==
                    [config EXCEPT
                        !.exported = export_gpio(@, gpio_pin, host)]
            IN IF ~export_gpio_returns(config.exported, gpio_pin, host)
               THEN PinRun(after, FAILURE)
               ELSE LET done == GPIOTester_digital_io_accesses(
                                    after, gpio_pin, 1, host)
                        released ==
                            [done.config EXCEPT
                                !.exported = unexport_gpio(@, gpio_pin, host)]
                    IN IF ~done.result THEN PinRun(released, FAILURE)
                       ELSE GPIOTester_test_digital_io_on(released, k + 1,
                                                          host)

(* GPIOTester::short_test on the pins: test_digital_io, then test_pwm      *)
(* whatever test_digital_io returned; test_i2c, test_spi and test_uart     *)
(* touch no pin.  The result is the pair of the two sub-check results.     *)
GPIOTester_short_test_on(config, host) ==
    LET digital == GPIOTester_test_digital_io_on(config, 1, host)
        pwm == GPIOTester_pwm_pins(digital.config.exported, host)
    IN PinRun([digital.config EXCEPT !.exported = pwm.exported],
              <<digital.result, pwm.result>>)

(* FormFactorTester::test_gpio_pin: exports the pin when it has no gpioN   *)
(* directory, sets it to output, writes 1, reads it back and writes 0.     *)
(* The pin is not unexported.                                              *)
FormFactorTester_test_gpio_pin(config, pin_number, host) ==
    LET fails(step) == host.fail_pin = pin_number /\ host.fail_step = step
        exported == IF pin_number \in config.exported THEN config
                    ELSE [config EXCEPT
                             !.exported = export_gpio(@, pin_number, host)]
        output == sysfs_write(exported, pin_number, "direction_out")
        high == sysfs_write(output, pin_number, "write_high")
        low == sysfs_write(high, pin_number, "write_low")
    IN IF pin_number \notin exported.exported
       THEN PinRun(exported, NOT_SUPPORTED)
       ELSE IF fails("direction_out") THEN PinRun(exported, FAILURE)
       ELSE IF fails("write_high") THEN PinRun(output, FAILURE)
       ELSE IF fails("read") THEN PinRun(high, FAILURE)
       ELSE IF fails("write_low") THEN PinRun(high, SUCCESS)
       ELSE PinRun(low, SUCCESS)

(* FormFactorTester::test_gpio_pins from the pin given on, on a host with  *)
(* /sys/class/gpio.                                                        *)
RECURSIVE FormFactorTester_test_gpio_pins_on(_, _, _, _)
FormFactorTester_test_gpio_pins_on(config, pin, any_pin_tested, host) ==
    IF pin >= 10
    THEN PinRun(config, IF any_pin_tested THEN SUCCESS ELSE NOT_SUPPORTED)
    ELSE LET pin_run == FormFactorTester_test_gpio_pin(config, pin, host)
         IN IF pin_run.result = NOT_SUPPORTED
            THEN FormFactorTester_test_gpio_pins_on(
                     pin_run.config, pin + 1, any_pin_tested, host)
            ELSE IF pin_run.result # SUCCESS
                 THEN PinRun(pin_run.config, FAILURE)
            ELSE FormFactorTester_test_gpio_pins_on(
                     pin_run.config, pin + 1, TRUE, host)

(* FormFactorTester::short_test on the pins: only test_gpio_pins touches   *)
(* them.                                                                   *)
FormFactorTester_short_test_on(config, host) ==
    LET pins_run == FormFactorTester_test_gpio_pins_on(config, 0, FALSE, host)
    IN PinRun(pins_run.config, <<pins_run.result>>)

(* The pins as a tester finds them: some exported by someone else, all     *)
(* inputs reading low or all outputs driven high.                          *)
InitialPinConfigs ==
    {[exported |-> pre_exported,
      direction |-> [p \in SysfsPins |-> level[1]],
      value |-> [p \in SysfsPins |-> level[2]]] :
        pre_exported \in SUBSET {0, 18},
        level \in {<<"in", 0>>, <<"out", 1>>}}

sysfs_unchanged == <<tester, call, runner_vars, json_vars, mon, gpio, mc, cpu, life, ifaces>>

(* A GPIOTester or FormFactorTester is constructed; neither constructor    *)
(* writes to a pin.                                                        *)
SysfsConstruct(name, config) ==
    /\ sysfs = NoSysfs
    /\ sysfs' = [name |-> name, host |-> <<>>, config |-> config,
                 before |-> config, results |-> <<>>]
    /\ UNCHANGED sysfs_unchanged

(* short_test() is called, and called again under the same conditions.     *)
SysfsShortTest(host) ==
    /\ sysfs.name # ""
    /\ Len(sysfs.results) < 2
    /\ sysfs.results # <<>> => host = sysfs.host
    /\ LET run == IF sysfs.name = "gpio"
                  THEN GPIOTester_short_test_on(sysfs.config, host)
                  ELSE FormFactorTester_short_test_on(sysfs.config, host)
       IN sysfs' = [name |-> sysfs.name, host |-> host,
                    config |-> run.config, before |-> sysfs.config,
                    results |-> Append(sysfs.results, run.result)]
    /\ UNCHANGED sysfs_unchanged

(* The tester is set aside and another host is looked at.                  *)
SysfsLeave ==
    /\ sysfs.name # ""
    /\ sysfs' = NoSysfs
    /\ UNCHANGED sysfs_unchanged

NextSysfs ==
    \/ \E name \in {"gpio", "form_factor"}, config \in InitialPinConfigs :
           SysfsConstruct(name, config)
    \/ \E host \in GpioHosts : SysfsShortTest(host)
    \/ SysfsLeave

SpecSysfs == InitTester /\ [][NextSysfs]_vars

(* C24: when short_test() of a GPIOTester or a FormFactorTester has        *)
(* returned, the export state, the direction and the value of every pin    *)
(* are what they were before the call, whatever the pins' state was        *)
(* (pins exported by someone else included), and a second call has         *)
(* returned the same results as the first.                                 *)
C24_ShortTestLeavesPinsUnaltered ==
    (sysfs.name # "" /\ sysfs.results # <<>>) =>
        /\ sysfs.config = sysfs.before
        /\ Len(sysfs.results) = 2 => sysfs.results[1] = sysfs.results[2]

---------------------------------------------------------------------------
(* CPUTester on what /proc/cpuinfo and the temperature files contain.      *)
(* A temperature file is "absent" (it does not open), holds "junk"         *)
(* (std::stod throws) or holds a "number", raw; temperatures are whole     *)
(* degrees, so a number above 1000 is a multiple of 1000.                  *)

(* CPUTester::get_cpu_info, the field cores: the "cpu cores" line when it  *)
(* gave a number other than 0, else the count of "processor" lines, else 2 *)
get_cpu_info_cores(cpuinfo) ==
    IF cpuinfo.cpu_cores # 0 THEN cpuinfo.cpu_cores
    ELSE IF cpuinfo.processor_count > 0 THEN cpuinfo.processor_count
    ELSE 2

(* CPUTester::get_cpu_temperature from the k-th temperature file on        *)
RECURSIVE get_cpu_temperature(_, _)
get_cpu_temperature(temp_files, k) ==
    IF k > Len(temp_files) THEN -1
    ELSE IF temp_files[k].holds # "number"
         THEN get_cpu_temperature(temp_files, k + 1)
    ELSE LET temp == IF temp_files[k].raw > 1000
                     THEN temp_files[k].raw \div 1000
                     ELSE temp_files[k].raw
         IN IF temp >= -40 /\ temp <= 125 THEN temp
            ELSE get_cpu_temperature(temp_files, k + 1)

CpuInfos == [cpu_cores : {0, 2, 4}, processor_count : {0, 2}]

SensorContents ==
    [holds : {"absent", "junk"}, raw : {0}]
        \cup [holds : {"number"},
              raw : {-41, -40, -5, -1, 0, 45, 100, 101, 125, 126, 1000,
                     2000, 45000, 100000, 101000, 125000, 126000}]

cpu_unchanged ==
    <<tester, call, runner_vars, json_vars, mon, gpio, sysfs, mc, life, ifaces>>

(* CPUTester::CPUTester on a host whose /proc/cpuinfo names the CPU        *)
CpuConstruct(cpuinfo) ==
    /\ cpu = NoCpu
    /\ cpu' = [NoCpu EXCEPT !.op = "constructor",
                            !.cores = get_cpu_info_cores(cpuinfo)]
    /\ UNCHANGED cpu_unchanged

(* CPUTester::short_test: the "Cores: " line of details and the            *)
(* temperature sub-check.                                                  *)
CpuShortTest(temp_files) ==
    /\ cpu.op = "constructor"
    /\ cpu' = [cpu EXCEPT
                 !.op = "short_test",
                 !.sensors = temp_files,
                 !.cores_line = <<"Cores: ", cpu.cores>>,
                 !.temperature = CPUTester_test_temperature(
                                     get_cpu_temperature(temp_files, 1))]
    /\ UNCHANGED cpu_unchanged

CpuDestroy ==
    /\ cpu # NoCpu
    /\ cpu' = NoCpu
    /\ UNCHANGED cpu_unchanged

NextCpu ==
    \/ \E cpuinfo \in CpuInfos : CpuConstruct(cpuinfo)
    \/ \E temp_files \in [1..2 -> SensorContents] : CpuShortTest(temp_files)
    \/ CpuDestroy

SpecCpu == InitTester /\ [][NextCpu]_vars

(* The temperature files that hold a number, and the reading of the first *)
(* of them in degrees (a number above 1000 is in millidegrees).            *)
Readable(temp_files) ==
    {k \in 1..Len(temp_files) : temp_files[k].holds = "number"}

Reading(temp_files) ==
    LET raw == temp_files[Min(Readable(temp_files))].raw
    IN IF raw > 1000 THEN raw \div 1000 ELSE raw

(* C25: after short_test() of a CPUTester whose /proc/cpuinfo describes 2  *)
(* cores and whose sensor reports 45000, details hold "Cores: 2" and the   *)
(* temperature sub-check is SUCCESS; in general the temperature sub-check  *)
(* is SUCCESS exactly when a reading is available and in [0, 100], FAILURE *)
(* exactly when one is available and outside [0, 100], and NOT_SUPPORTED   *)
(* exactly when there is no reading.                                       *)
C25_TemperatureVerdict ==
    cpu.op = "short_test" =>
        LET available == Readable(cpu.sensors) # {}
            in_range == /\ available
                        /\ Reading(cpu.sensors) >= 0
                        /\ Reading(cpu.sensors) <= 100
        IN /\ (/\ cpu.cores = 2
               /\ cpu.sensors[1] = [holds |-> "number", raw |-> 45000]) =>
                  /\ cpu.cores_line = <<"Cores: ", 2>>
                  /\ cpu.temperature = SUCCESS
           /\ cpu.temperature = SUCCESS <=> in_range
           /\ cpu.temperature = FAILURE <=> (available /\ ~in_range)
           /\ cpu.temperature = NOT_SUPPORTED <=> ~available

---------------------------------------------------------------------------
(* CPUTester::test_multi_core step by step: the calling thread and the     *)
(* std::thread workers it starts, under every interleaving.  Workers are   *)
(* numbered 0 .. num_threads - 1 as in the code.  written_by[k] is the set *)
(* of workers that stored into results[k]; read_early tells that the       *)
(* calling thread read an element while a worker was not joined.           *)

MaxThreads == 4   \* std::thread::hardware_concurrency()

(* every worker stores into element 0                                      *)
WorkerSlot_shared(i) == 0

(* The element of results worker i stores into: the lambda captures i by   *)
(* value.                                                                  *)
WorkerSlot(i) == i

mc_unchanged ==
    <<tester, call, runner_vars, json_vars, mon, gpio, sysfs, cpu, life, ifaces>>

(* test_multi_core is entered: hardware_concurrency() is read, and         *)
(* results is num_threads zeros.                                           *)
McEnter(num_threads) ==
    /\ mc = NoThreads
    /\ mc' = IF num_threads = 0
             THEN [NoThreads EXCEPT !.main = "done",
                                    !.result = NOT_SUPPORTED]
             ELSE [NoThreads EXCEPT
                      !.main = "spawn",
                      !.num_threads = num_threads,
                      !.worker = [k \in 0..(num_threads - 1) |-> "unstarted"],
                      !.sum = [k \in 0..(num_threads - 1) |-> 0],
                      !.results = [k \in 0..(num_threads - 1) |-> 0],
                      !.written_by = [k \in 0..(num_threads - 1) |-> {}]]
    /\ UNCHANGED mc_unchanged

(* threads.emplace_back(...): worker i starts                              *)
McSpawn ==
    /\ mc.main = "spawn"
    /\ mc' = [mc EXCEPT
                !.worker[mc.i] = "started",
                !.i = IF mc.i + 1 = mc.num_threads THEN 0 ELSE mc.i + 1,
                !.main = IF mc.i + 1 = mc.num_threads THEN "join"
                         ELSE "spawn"]
    /\ UNCHANGED mc_unchanged

(* worker i runs its loop: sum is local to the thread                      *)
McCompute(i) ==
    /\ mc.main \in {"spawn", "join", "verify"}
    /\ mc.worker[i] = "started"
    /\ mc' = [mc EXCEPT !.worker[i] = "computed", !.sum[i] = WorkerSum(i)]
    /\ UNCHANGED mc_unchanged

(* worker i executes results[i] = sum and ends                             *)
McStore(i) ==
    /\ mc.main \in {"spawn", "join", "verify"}
    /\ mc.worker[i] = "computed"
    /\ mc' = [mc EXCEPT
                !.worker[i] = "finished",
                !.results[WorkerSlot(i)] = mc.sum[i],
                !.written_by[WorkerSlot(i)] = @ \cup {i}]
    /\ UNCHANGED mc_unchanged

(* thread.join() returns once the worker has ended                         *)
McJoin ==
    /\ mc.main = "join"
    /\ mc.worker[mc.i] = "finished"
    /\ mc' = [mc EXCEPT
                !.worker[mc.i] = "joined",
                !.i = IF mc.i + 1 = mc.num_threads THEN 0 ELSE mc.i + 1,
                !.main = IF mc.i + 1 = mc.num_threads THEN "verify"
                         ELSE "join"]
    /\ UNCHANGED mc_unchanged

(* one iteration of the loop over results                                  *)
McVerify ==
    /\ mc.main = "verify"
    /\ LET early == \E k \in 0..(mc.num_threads - 1) :
                        mc.worker[k] # "joined"
           failed == mc.results[mc.i] = 0
           at_end == mc.i + 1 = mc.num_threads
       IN mc' = [mc EXCEPT
                    !.read_early = @ \/ early,
                    !.i = IF failed \/ at_end THEN 0 ELSE mc.i + 1,
                    !.main = IF failed \/ at_end THEN "done" ELSE "verify",
                    !.result = IF failed THEN FAILURE
                               ELSE IF at_end THEN SUCCESS ELSE @]
    /\ UNCHANGED mc_unchanged

(* test_multi_core has returned and is called afresh                       *)
McReturn ==
    /\ mc.main = "done"
    /\ mc' = NoThreads
    /\ UNCHANGED mc_unchanged

NextThreads ==
    \/ \E num_threads \in 0..MaxThreads : McEnter(num_threads)
    \/ McSpawn
    \/ \E i \in 0..(mc.num_threads - 1) : McCompute(i)
    \/ \E i \in 0..(mc.num_threads - 1) : McStore(i)
    \/ McJoin
    \/ McVerify
    \/ McReturn

SpecThreads == InitTester /\ [][NextThreads]_vars

(* C26: when test_multi_core has returned with a hardware concurrency of   *)
(* at least 1 and all workers completed, the result is SUCCESS; it is      *)
(* NOT_SUPPORTED only when the hardware concurrency is 0.                  *)
C26_MultiCoreSucceeds ==
    mc.main = "done" =>
        /\ mc.num_threads >= 1 => mc.result = SUCCESS
        /\ mc.result = NOT_SUPPORTED => mc.num_threads = 0

(* C27: under every interleaving, an element of results is stored into     *)
(* only by the worker of the same number, the calling thread reads         *)
(* results only after every worker is joined, and the result returned is   *)
(* the one the sequential computation gives for this number of threads.    *)
C27_DisjointSlotsJoinedBeforeRead ==
    /\ \A k \in 0..(mc.num_threads - 1) : mc.written_by[k] \subseteq {k}
    /\ ~mc.read_early
    /\ mc.main = "verify" =>
           \A k \in 0..(mc.num_threads - 1) :
               mc.worker[k] = "joined" /\ mc.written_by[k] = {k}
    /\ mc.main = "done" =>
           mc.result = CPUTester_test_multi_core(mc.num_threads)

(* Several workers have stored, each into its own element, were joined,   *)
(* and the calling thread has read the results.                            *)
C27_Witness ==
    /\ mc.main = "done"
    /\ mc.num_threads >= 2
    /\ \A k \in 0..(mc.num_threads - 1) :
           mc.worker[k] = "joined" /\ mc.written_by[k] = {k}
    /\ mc.results[1] = 499500

---------------------------------------------------------------------------
(* A GPIOTester from its constructor to its destructor, on the set of      *)
(* exported pins.  mine is the set of pins for which an export_gpio call   *)
(* of this tester returned true; unexport_worked tells that the unexport   *)
(* file opened in every operation so far.                                  *)

(* GPIOTester::short_test on the exported pins: test_digital_io, then      *)
(* test_pwm.                                                               *)
GPIOTester_short_test_pins(exported, host) ==
    LET digital == GPIOTester_digital_io_pins(exported, host)
        pwm == GPIOTester_pwm_pins(digital.exported, host)
    IN GpioOutcome(pwm.exported, digital.by_op \cup pwm.by_op,
                   Verdict(digital.result = SUCCESS /\ pwm.result = SUCCESS))

(* GPIOTester::~GPIOTester: unexport_gpio on every pin of test_pins_,      *)
(* exported by this tester or not.                                         *)
GPIOTester_destructor_pins(exported, host) ==
    IF host.unexport_opens THEN exported \ test_pins ELSE exported

life_unchanged ==
    <<tester, call, runner_vars, json_vars, mon, gpio, sysfs, mc, cpu,
      ifaces>>

LifeReturned(op, host, outcome) ==
    life' = [life EXCEPT
               !.op = op,
               !.before = life.exported,
               !.exported = outcome.exported,
               !.mine = @ \cup outcome.by_op,
               !.unexport_worked = @ /\ host.unexport_opens,
               !.tests_run = TRUE]

(* GPIOTester::GPIOTester on a host where some pins may be exported by     *)
(* someone else; the constructor exports nothing.                          *)
LifeConstruct(pre_exported) ==
    /\ ~life.alive
    /\ life' = [NoLifetime EXCEPT !.alive = TRUE, !.op = "constructor",
                                  !.exported = pre_exported,
                                  !.before = pre_exported]
    /\ UNCHANGED life_unchanged

LifeShortTest(host) ==
    /\ life.alive
    /\ LifeReturned("short_test", host,
                    GPIOTester_short_test_pins(life.exported, host))
    /\ UNCHANGED life_unchanged

LifeMonitorTest(host, w) ==
    /\ life.alive
    /\ LifeReturned("monitor_test", host,
                    GPIOTester_monitor_pins(life.exported, host, w))
    /\ UNCHANGED life_unchanged

LifeDestroy(host) ==
    /\ life.alive
    /\ life' = [life EXCEPT
                  !.alive = FALSE,
                  !.op = "destructor",
                  !.before = life.exported,
                  !.exported = GPIOTester_destructor_pins(@, host),
                  !.unexport_worked = @ /\ host.unexport_opens]
    /\ UNCHANGED life_unchanged

NextLifetime ==
    \/ \E pre_exported \in SUBSET {2, 5, 18} : LifeConstruct(pre_exported)
    \/ \E host \in GpioHosts : LifeShortTest(host)
    \/ \E host \in GpioHosts, w \in {<<>>, <<1>>, <<-1>>} :
           LifeMonitorTest(host, w)
    \/ \E host \in GpioHosts : LifeDestroy(host)

SpecLifetime == InitTester /\ [][NextLifetime]_vars

(* C28: after a GPIOTester has been destroyed, whatever short_test() and   *)
(* monitor_test() calls were made and whichever of their steps failed,     *)
(* none of the pins this tester exported during its lifetime is still      *)
(* exported, provided the unexport file could be written throughout.       *)
C28_NoOwnPinExportedAfterDestruction ==
    (life.op = "destructor" /\ life.unexport_worked)
        => life.mine \cap life.exported = {}

(* The tester exported pins 0, 1, 2 and 18, pin 2 was still exported when  *)
(* the destructor ran, and it is unexported now.                           *)
C28_Witness ==
    /\ life.op = "destructor"
    /\ life.unexport_worked
    /\ life.mine = {0, 1, 2, 18}
    /\ 2 \in life.before
    /\ life.mine \cap life.exported = {}

(* C29: a GPIOTester unexports only pins it exported itself: when a        *)
(* GPIOTester has been constructed and destroyed without any test having   *)
(* run, the set of exported pins is what it was.                           *)
C29_DestructorLeavesForeignPins ==
    /\ life.before \ life.exported \subseteq life.mine
    /\ (life.op = "destructor" /\ ~life.tests_run)
           => life.exported = life.before

---------------------------------------------------------------------------
(* FormFactorTester on the host's interfaces.  present is the set of       *)
(* interfaces whose device or class paths exist.                           *)
InterfaceNames ==
    <<"GPIO", "I2C", "SPI", "UART", "USB", "Ethernet", "PCIe">>

(* only the interfaces found are listed                                    *)
FormFactorTester_enumerate_available(present) ==
    SelectSeq([k \in 1..Len(InterfaceNames) |->
                  [name |-> InterfaceNames[k], available |-> TRUE]],
              LAMBDA info : info.name \in present)

(* FormFactorTester::enumerate_interfaces: one InterfaceInfo per kind of   *)
(* interface, available or not.                                            *)
FormFactorTester_enumerate(present) ==
    [k \in 1..Len(InterfaceNames) |->
        [name |-> InterfaceNames[k],
         available |-> InterfaceNames[k] \in present]]

(* FormFactorTester::test_interfaces on the host                           *)
FormFactorTester_test_interfaces_on(present) ==
    LET interfaces == FormFactorTester_enumerate(present)
    IN IF interfaces = <<>> THEN FAILURE
       ELSE IF \E k \in 1..Len(interfaces) : interfaces[k].available
            THEN SUCCESS ELSE FAILURE

(* FormFactorTester::monitor_interfaces on the host; w[i] is the board     *)
(* temperature and the interfaces present at poll i, cached_interfaces is  *)
(* form_factor_info_.interfaces.size().                                    *)
FormFactorTester_monitor_interfaces_on(cached_interfaces, initial_temp, w) ==
    LET Unstable(poll) ==
            \/ poll.temp - initial_temp > 20
            \/ initial_temp - poll.temp > 20
            \/ Len(FormFactorTester_enumerate(poll.present))
                   # cached_interfaces
        first == FirstBad(w, Unstable)
    IN IF first <= Len(w) THEN Reduction(FAILURE, first)
       ELSE Reduction(SUCCESS, Len(w))

(* The hosts looked at: no interface, GPIO only, PCIe only, all seven.     *)
PresentSets ==
    {{}, {"GPIO"}, {"PCIe"},
     {"GPIO", "I2C", "SPI", "UART", "USB", "Ethernet", "PCIe"}}

(* The constructor fills form_factor_info_, interfaces included, only when *)
(* the tester is available; /sys/class/gpio makes it available.            *)
FormFactorTesters ==
    {t \in [available : BOOLEAN, present : PresentSets, temp : {30, 50},
            cached_interfaces : {0, Len(InterfaceNames)}] :
        /\ "GPIO" \in t.present => t.available
        /\ t.cached_interfaces =
               IF t.available
               THEN Len(FormFactorTester_enumerate(t.present)) ELSE 0}

ifaces_unchanged ==
    <<tester, call, runner_vars, json_vars, mon, gpio, sysfs, mc, cpu, life>>

(* A function of the tester returns: the tester it ran on, the polls it    *)
(* was given and what it did.                                              *)
InterfacesCall(name, t, w, reduction) ==
    /\ ifaces = NoMonitoring
    /\ ifaces' = [name |-> name, initial |-> t, w |-> w,
                  result |-> reduction.result, polls |-> reduction.polls]
    /\ UNCHANGED ifaces_unchanged

(* FormFactorTester::test_interfaces is called by short_test()             *)
InterfacesTest ==
    \E t \in {u \in FormFactorTesters : u.available} :
        InterfacesCall("test_interfaces", t, <<>>,
                       Reduction(
                           FormFactorTester_test_interfaces_on(t.present), 0))

(* FormFactorTester::monitor_test on the host                              *)
InterfacesMonitor ==
    \E t \in FormFactorTesters,
       w \in MonitorWindows([temp : {30, 50, 51}, present : PresentSets],
                            MaxPolls) :
        InterfacesCall("monitor_test", t, w,
                       IF ~t.available THEN Reduction(NOT_SUPPORTED, 0)
                       ELSE FormFactorTester_monitor_interfaces_on(
                                t.cached_interfaces, t.temp, w))

(* The tester is destroyed.                                                *)
InterfacesDone ==
    /\ ifaces # NoMonitoring
    /\ ifaces' = NoMonitoring
    /\ UNCHANGED ifaces_unchanged

NextInterfaces ==
    \/ InterfacesTest
    \/ InterfacesMonitor
    \/ InterfacesDone

SpecInterfaces == InitTester /\ [][NextInterfaces]_vars

(* The polls monitor_interfaces performed at which the board temperature   *)
(* differs from the initial sample by more than 20 degrees.                *)
TemperatureDrifts(m) ==
    {i \in 1..m.polls : Abs(m.w[i].temp - m.initial.temp) > 20}

(* C30: enumerate_interfaces returns exactly 7 entries whatever interfaces *)
(* the host has; the count cached by the constructor of an available       *)
(* FormFactorTester is 7 (an unavailable one caches nothing and runs       *)
(* neither function); test_interfaces returns FAILURE only when none of    *)
(* the 7 entries is available; and monitor_interfaces returns FAILURE      *)
(* exactly when some sampled board temperature differs from the initial    *)
(* sample by more than 20 degrees, never for the interface count.          *)
C30_SevenInterfacesWhenAvailable ==
    /\ ifaces.name = "test_interfaces" =>
           /\ Len(FormFactorTester_enumerate(ifaces.initial.present)) = 7
           /\ ifaces.initial.cached_interfaces = 7
           /\ ifaces.result = FAILURE <=> ifaces.initial.present = {}
    /\ ifaces.name = "monitor_test" =>
           /\ \A i \in 1..Len(ifaces.w) :
                  Len(FormFactorTester_enumerate(ifaces.w[i].present)) = 7
           /\ ifaces.initial.available =>
                  /\ ifaces.initial.cached_interfaces = 7
                  /\ ifaces.result \in {SUCCESS, FAILURE}
                  /\ ifaces.result = FAILURE <=> TemperatureDrifts(ifaces) # {}
           /\ ~ifaces.initial.available =>
                  /\ ifaces.initial.cached_interfaces = 0
                  /\ ifaces.result = NOT_SUPPORTED

(* The interfaces present changed from all seven to none during the        *)
(* window, the temperature moved by 20 degrees, and the verdict is SUCCESS.*)
C30_Witness ==
    /\ ifaces.name = "monitor_test"
    /\ ifaces.initial.available
    /\ Cardinality(ifaces.initial.present) = 7
    /\ ifaces.initial.temp = 30
    /\ ifaces.polls = 2
    /\ ifaces.w[1].present = {}
    /\ ifaces.w[2].temp = 50
    /\ ifaces.result = SUCCESS

(* C30 as stated: the cached count is 7 for every FormFactorTester, and    *)
(* monitor_interfaces returns FAILURE only when some sampled board         *)
(* temperature differs from the initial sample by more than 20 degrees.    *)
C30_SevenInterfacesAlways ==
    ifaces.name \in {"test_interfaces", "monitor_test"}
        => /\ ifaces.initial.cached_interfaces = 7
           /\ ifaces.result = FAILURE =>
                  \/ ifaces.name = "test_interfaces"
                  \/ TemperatureDrifts(ifaces) # {}

===========================================================================
